---- MODULE Spec2Model ----
(***************************************************************************)
(* PR Enhancer content script (talgreen/github-pr-enhancer): the sort      *)
(* engine, the placement of the merge status box and the mutation          *)
(* reconciliation loop, as a state machine over an abstract host page.     *)
(*                                                                         *)
(* The engine runs on the page's event loop, so every handler or callback  *)
(* is one atomic action.  The program state is grouped in records:         *)
(*   state   - core.js `state` (currentSort, sortControlsInjected,         *)
(*             isInitialized, debounceTimer)                               *)
(*   dom     - the part of the host tree the engine reads and writes       *)
(*   page    - location and rendering facts read by isConversationTab()    *)
(*   storage - chrome.storage.sync / localStorage                          *)
(*   timers  - pending setTimeout callbacks and storage promises           *)
(*   records - the engine's observer and listeners: whether the            *)
(*             MutationObserver is installed, the records queued for its   *)
(*             next callback, how many times init has installed observer   *)
(*             and listeners, and whether init waits for DOMContentLoaded  *)
(*   last    - history of the last operation (what ran, on what input)     *)
(* Handlers are operators from a world record (all of the above but        *)
(* `last`) to a world record, composed as the code composes its calls.     *)
(***************************************************************************)
EXTENDS Integers, Sequences, FiniteSets

VARIABLES state, dom, page, storage, timers, records, last

vars == <<state, dom, page, storage, timers, records, last>>

World == [state |-> state, dom |-> dom, page |-> page, storage |-> storage,
          timers |-> timers, records |-> records]

Commit(w) ==
    /\ state' = w.state
    /\ dom' = w.dom
    /\ page' = w.page
    /\ storage' = w.storage
    /\ timers' = w.timers
    /\ records' = w.records

(***************************************************************************)
(* Bounds of the model.                                                    *)
(***************************************************************************)
\* longest child list of the comment container
MaxLen == 3
\* parseable datetime values are 1..MaxTime (time since the epoch)
MaxTime == 1

\* threads of the page in the specifications of the reconciliation loop
MaxThreads == 1

\* sort requests in one behaviour of StartSpec, and the longest child list
\* there
MaxRequests == 2
MaxStartLen == 2

(***************************************************************************)
(* core.js: configuration.                                                 *)
(***************************************************************************)
DATE_OLDEST == "date-oldest"
DATE_NEWEST == "date-newest"
RESOLVED_LAST == "resolved-last"
UNRESOLVED_LAST == "unresolved-last"

\* Object.values(SORT_OPTIONS), in property order
SORT_OPTIONS == <<DATE_OLDEST, DATE_NEWEST, RESOLVED_LAST, UNRESOLVED_LAST>>

SortModes == {SORT_OPTIONS[i] : i \in 1..Len(SORT_OPTIONS)}

\* a sortOption payload that is none of the enumerated modes
BOGUS == "bogus"

NONE == "none"

(***************************************************************************)
(* Comment elements: a child of .js-discussion.  `time` is what            *)
(* querySelector("relative-time, time") and its datetime attribute give:   *)
(* kind "none" (no time element, or no or an empty datetime attribute: the *)
(* code falls back to new Date(0)), "bad" (a datetime that Date cannot     *)
(* parse: an Invalid Date) or "ok" with time value v.  `unres` says        *)
(* whether a details[data-resolved="false"] is inside the element.         *)
(***************************************************************************)
TimeAttrs ==
    {[kind |-> "none", v |-> 0], [kind |-> "bad", v |-> 0]}
        \cup {[kind |-> "ok", v |-> t] : t \in 1..MaxTime}

ElementAttrs == [time : TimeAttrs, unres : BOOLEAN]

MkElement(i, a) == [id |-> i, time |-> a.time, unres |-> a.unres]

ChildLists ==
    UNION {{[i \in 1..n |-> MkElement(i, f[i])] : f \in [1..n -> ElementAttrs]}
              : n \in 0..MaxLen}

Range(s) == {s[i] : i \in 1..Len(s)}

\* comments: isCommentResolved
isCommentResolved(el) == ~el.unres

\* new Date(timeEl.getAttribute("datetime") || 0), or new Date(0): the time
\* value, NaN for an Invalid Date
DateOf(el) ==
    [nan |-> el.time.kind = "bad",
     v |-> IF el.time.kind = "ok" THEN el.time.v ELSE 0]

\* dateA - dateB as Array.prototype.sort reads it: a NaN result counts as +0
DateDiff(a, b) ==
    IF DateOf(a).nan \/ DateOf(b).nan THEN 0 ELSE DateOf(a).v - DateOf(b).v

\* compareChildren with the date-newest case comparing like date-oldest
compareNewestAscending(a, b, sortOption) ==
    IF sortOption \in {DATE_NEWEST, DATE_OLDEST} THEN DateDiff(a, b)
    ELSE IF sortOption = RESOLVED_LAST
         THEN IF isCommentResolved(a) # isCommentResolved(b)
              THEN (IF isCommentResolved(a) THEN 1 ELSE -1)
              ELSE DateDiff(a, b)
    ELSE IF sortOption = UNRESOLVED_LAST
         THEN IF (~isCommentResolved(a)) # (~isCommentResolved(b))
              THEN (IF ~isCommentResolved(a) THEN -1 ELSE 1)
              ELSE DateDiff(a, b)
    ELSE DateDiff(a, b)

\* the comparator passed to children.sort in applySorting
compareChildren(a, b, sortOption) ==
    IF sortOption = DATE_NEWEST THEN DateDiff(b, a)
    ELSE IF sortOption = DATE_OLDEST THEN DateDiff(a, b)
    ELSE IF sortOption = RESOLVED_LAST
         THEN IF isCommentResolved(a) # isCommentResolved(b)
              THEN (IF isCommentResolved(a) THEN 1 ELSE -1)
              ELSE DateDiff(a, b)
    ELSE IF sortOption = UNRESOLVED_LAST
         THEN IF (~isCommentResolved(a)) # (~isCommentResolved(b))
              THEN (IF ~isCommentResolved(a) THEN -1 ELSE 1)
              ELSE DateDiff(a, b)
    ELSE DateDiff(a, b)

\* ECMAScript "consistent comparator" over the elements being sorted; without
\* a NaN date the comparator orders by (group, time) and is consistent
ConsistentComparator(s, sortOption) ==
    LET c(a, b) == compareChildren(a, b, sortOption)
    IN (\A e \in Range(s) : ~DateOf(e).nan) \/ \A a \in Range(s), b \in Range(s), x \in Range(s) :
          /\ c(a, a) = 0
          /\ (c(a, b) = 0) => (c(b, a) = 0)
          /\ (c(a, b) < 0) => (c(b, a) > 0)
          /\ (c(a, b) = 0 /\ c(b, x) = 0) => (c(a, x) = 0)
          /\ (c(a, b) < 0 /\ c(b, x) < 0) => (c(a, x) < 0)
          /\ (c(a, b) < 0 /\ c(b, x) = 0) => (c(a, x) < 0)
          /\ (c(a, b) = 0 /\ c(b, x) < 0) => (c(a, x) < 0)

\* insert e after every element that does not compare greater (stable)
RECURSIVE InsertSorted(_, _, _)
InsertSorted(e, s, sortOption) ==
    IF s = <<>> THEN <<e>>
    ELSE IF compareChildren(Head(s), e, sortOption) > 0 THEN <<e>> \o s
    ELSE <<Head(s)>> \o InsertSorted(e, Tail(s), sortOption)

RECURSIVE StableSort(_, _)
StableSort(s, sortOption) ==
    IF s = <<>> THEN <<>>
    ELSE InsertSorted(s[Len(s)], StableSort(SubSeq(s, 1, Len(s) - 1), sortOption),
                      sortOption)

Orderings(s) ==
    {p \in [1..Len(s) -> Range(s)] : \A e \in Range(s) : \E i \in 1..Len(s) : p[i] = e}

\* Array.prototype.sort: the stable order under a consistent comparator, an
\* implementation-defined order of the same elements under an inconsistent one
SortOutcomes(s, sortOption) ==
    IF ConsistentComparator(s, sortOption) THEN {StableSort(s, sortOption)}
    ELSE Orderings(s)

(***************************************************************************)
(* The page as isConversationTab() and isSSOLoginRequired() read it.       *)
(*   pathTab  - the tab name found in location.pathname by                 *)
(*              includes("/files"), ("/commits"), ("/changes"),            *)
(*              ("/checks"), or "none"                                     *)
(*   hashTab  - whether location.hash contains commits, checks, files or   *)
(*              diff-                                                      *)
(*   otherVisible - a files, commits (outside the timeline) or checks      *)
(*              container is rendered                                      *)
(*   bucket   - #discussion_bucket: "absent", "hidden" (not rendered, or   *)
(*              class d-none) or "visible"                                 *)
(*   nav      - the selected item of the tab navigation: "none", "other"   *)
(*              (files/commits/checks by text or href), "conversation"     *)
(*              (by text, or an href without #) or "anchor" (an href with  *)
(*              a # and no keyword)                                        *)
(*   sso      - an authentication interstitial is detected                 *)
(*   main     - one of the anchors '[data-target="diff-layout.mainContainer"]',*)
(*              .pull-discussion-timeline, .repository-content or main     *)
(*              exists                                                     *)
(*   pull     - location.pathname contains "/pull/"                        *)
(***************************************************************************)
PathTabs == {"none", "files", "commits", "changes", "checks"}

Pages == [pathTab : PathTabs, hashTab : BOOLEAN, otherVisible : BOOLEAN,
          bucket : {"absent", "hidden", "visible"},
          nav : {"none", "other", "conversation", "anchor"}, sso : BOOLEAN,
          main : BOOLEAN, pull : BOOLEAN]

\* a pull request's conversation tab, rendered
ConversationPage ==
    [pathTab |-> "none", hashTab |-> FALSE, otherVisible |-> FALSE,
     bucket |-> "visible", nav |-> "conversation", sso |-> FALSE, main |-> TRUE,
     pull |-> TRUE]

\* the "Files changed" tab of the same pull request
FilesPage ==
    [pathTab |-> "files", hashTab |-> FALSE, otherVisible |-> TRUE,
     bucket |-> "absent", nav |-> "other", sso |-> FALSE, main |-> TRUE,
     pull |-> TRUE]

\* the conversation tab behind a single sign-on prompt
SSOPage == [ConversationPage EXCEPT !.sso = TRUE]

\* isConversationTab starting at strategy 2, without the pathname check
isConversationTabFromHash(p) ==
    IF p.hashTab THEN FALSE
    ELSE IF p.otherVisible THEN FALSE
    ELSE IF p.bucket = "absent" THEN FALSE
    ELSE IF p.bucket = "visible" THEN TRUE
    ELSE IF p.nav = "other" THEN FALSE
    ELSE IF p.nav = "conversation" THEN TRUE
    ELSE FALSE

isConversationTab(p) ==
    IF p.pathTab # "none" THEN FALSE
    ELSE IF p.hashTab THEN FALSE
    ELSE IF p.otherVisible THEN FALSE
    ELSE IF p.bucket = "absent" THEN FALSE
    ELSE IF p.bucket = "visible" THEN TRUE
    ELSE IF p.nav = "other" THEN FALSE
    ELSE IF p.nav = "conversation" THEN TRUE
    ELSE FALSE

isSSOLoginRequired(p) == p.sso

\* shouldShowControls without the single sign-on check
shouldShowControlsIgnoringSSO(p) == isConversationTab(p)

shouldShowControls(p) == isConversationTab(p) /\ ~isSSOLoginRequired(p)

(***************************************************************************)
(* The host tree, as far as the engine reads and writes it.                *)
(*   hasContainer  - .js-discussion exists                                 *)
(*   children      - its children, in document order                       *)
(*   roots         - the .pr-comment-sorter-controls elements in the tree, *)
(*                   in document order                                     *)
(*   notification  - a .pr-sorter-notification is attached to the body     *)
(*   dropdown      - a .pr-sorter-unresolved-list is attached to the body  *)
(*   box           - the merge status box: whether the selectors find it,  *)
(*                   its parent and next sibling, and its data-moved-to-top*)
(*                   /-original-parent-id/-original-next-sibling-id        *)
(*   home          - the parent the box has in the page as loaded, and the *)
(*                   id of that parent ("" when it has none)               *)
(*   sib           - the node after the box in the page as loaded: "none", *)
(*                   an "element" or a "text" node, with its id            *)
(*   hasTimeline   - a .discussion-timeline element exists                 *)
(*   readyState    - document.readyState: "loading", or "complete" for any *)
(*                   later value                                           *)
(*   homeAttached  - the box's home parent is still in the document        *)
(*   sibPlace      - where the box's original next sibling is now: "home"  *)
(*                   (a child of the home parent), "moved" (in the         *)
(*                   document, under another parent) or "gone"             *)
(***************************************************************************)
\* the two mode buttons injectSortControls creates (data-sort)
SortButtons == {DATE_NEWEST, DATE_OLDEST}

\* safeQueryAll('details[data-resolved="false"]').length
UnresolvedCount(d) == Cardinality({i \in 1..Len(d.children) : d.children[i].unres})

\* a badge whose dropdown arrow is never removed
BadgeForKeepingArrow(count) ==
    IF count > 0
    THEN [cls |-> "has-unresolved", n |-> count, icon |-> "issueOpened", chevron |-> TRUE]
    ELSE [cls |-> "all-resolved", n |-> 0, icon |-> "checkCircle", chevron |-> TRUE]

\* the badge markup for a count: class, text ("n Unresolved", n = 0 for
\* "All Resolved"), icon and dropdown arrow
BadgeFor(count) ==
    IF count > 0
    THEN [cls |-> "has-unresolved", n |-> count, icon |-> "issueOpened", chevron |-> TRUE]
    ELSE [cls |-> "all-resolved", n |-> 0, icon |-> "checkCircle", chevron |-> FALSE]

\* the control root as injectSortControls builds it
NewRoot(d) ==
    [shown |-> TRUE, active |-> {DATE_NEWEST}, badge |-> BadgeFor(UnresolvedCount(d))]

\* A child-list write by the engine: the observer, once installed, queues a
\* record whose target is in `where` ("host", "controls" or "notification").
Mutated(w, where) ==
    IF w.records.observing
    THEN [w EXCEPT !.records.queue = @ \cup {where}]
    ELSE w

(***************************************************************************)
(* core.js: storage utilities.  storage.sync is "absent" (no               *)
(* chrome.storage.sync), "ok" or "failing" (its promises reject).          *)
(***************************************************************************)
savePreference(w, sortOption) ==
    IF w.storage.sync = "absent" THEN w
    ELSE IF w.storage.sync = "ok"
    THEN [w EXCEPT !.storage.sortPreference = sortOption]
    ELSE [w EXCEPT !.storage.local = sortOption]

(***************************************************************************)
(* ui.js: sort indicator and notification.                                 *)
(***************************************************************************)
updateSortIndicator(w, sortOption) ==
    [w EXCEPT !.dom.roots =
        [i \in 1..Len(@) |-> [@[i] EXCEPT !.active = {b \in SortButtons : b = sortOption}]]]

\* The old toast is removed and a new one appended to the body; its removal
\* timer is the only notification timer that can still change the tree.
showNotification(w) ==
    LET w1 == IF w.dom.notification THEN Mutated(w, "host") ELSE w
        w2 == Mutated([w1 EXCEPT !.dom.notification = TRUE], "host")
    IN [w2 EXCEPT !.timers = @ \cup {"notification"}]

(***************************************************************************)
(* core.js: sorting module.                                                *)
(***************************************************************************)
\* reorderElements appending a copy of each element instead of moving it
reorderElementsCloning(w, sortedElements) ==
    IF Len(sortedElements) = 0 \/ ~w.dom.hasContainer THEN w
    ELSE Mutated([w EXCEPT !.dom.children = @ \o sortedElements], "host")

reorderElements(w, sortedElements) ==
    IF Len(sortedElements) = 0 \/ ~w.dom.hasContainer THEN w
    ELSE Mutated([w EXCEPT !.dom.children = sortedElements], "host")

\* applySorting(sortOption); `sorted` is the order children.sort produced
applySorting(w, sortOption, sorted) ==
    LET w1 == savePreference([w EXCEPT !.state.currentSort = sortOption], sortOption)
    IN IF ~w1.dom.hasContainer THEN w1
       ELSE IF Len(w1.dom.children) = 0 THEN w1
       ELSE showNotification(updateSortIndicator(reorderElements(w1, sorted), sortOption))

\* options[(options.indexOf(state.currentSort) + 1) % options.length]
NextOption(current) ==
    IF \E i \in 1..Len(SORT_OPTIONS) : SORT_OPTIONS[i] = current
    THEN LET i == CHOOSE j \in 1..Len(SORT_OPTIONS) : SORT_OPTIONS[j] = current
         IN SORT_OPTIONS[(i % Len(SORT_OPTIONS)) + 1]
    ELSE SORT_OPTIONS[1]

toggleSort(w, sorted) == applySorting(w, NextOption(w.state.currentSort), sorted)

(***************************************************************************)
(* ui.js: visibility, injection and the unresolved badge.                  *)
(***************************************************************************)
\* updateControlsVisibility that shows the root and never hides it
updateControlsVisibilityShowOnly(w) ==
    IF Len(w.dom.roots) = 0 THEN w
    ELSE [w EXCEPT !.dom.roots[1].shown = TRUE]

\* safeQuery(".pr-comment-sorter-controls") is the first root of the tree
updateControlsVisibility(w) ==
    IF Len(w.dom.roots) = 0 THEN w
    ELSE [w EXCEPT !.dom.roots[1].shown = shouldShowControls(w.page)]

\* targetLocations without "#discussion_bucket"
AnchorFoundOutsideBucket(w) ==
    \/ w.dom.hasTimeline
    \/ w.dom.hasContainer
    \/ w.page.main

\* the first selector of targetLocations that matches
AnchorFound(w) ==
    \/ w.page.bucket # "absent"
    \/ w.dom.hasTimeline
    \/ w.dom.hasContainer
    \/ w.page.main

\* injectSortControls without the sortControlsInjected check
injectSortControlsUnguarded(w) ==
    IF ~shouldShowControls(w.page) THEN w
    ELSE IF ~AnchorFound(w) THEN [w EXCEPT !.timers = @ \cup {"retry"}]
    ELSE Mutated([w EXCEPT !.dom.roots = Append(@, NewRoot(w.dom)),
                           !.state.sortControlsInjected = TRUE], "host")

injectSortControls(w) ==
    IF w.state.sortControlsInjected THEN updateControlsVisibility(w)
    ELSE IF ~shouldShowControls(w.page) THEN w
    ELSE IF ~AnchorFound(w) THEN [w EXCEPT !.timers = @ \cup {"retry"}]
    ELSE Mutated([w EXCEPT !.dom.roots = Append(@, NewRoot(w.dom)),
                           !.state.sortControlsInjected = TRUE], "host")

closeUnresolvedList(w) ==
    IF w.dom.dropdown THEN Mutated([w EXCEPT !.dom.dropdown = FALSE], "host")
    ELSE w

\* updateUnresolvedButton for a badge kept outside the control root
updateUnresolvedButtonOutsideRoot(w) ==
    IF Len(w.dom.roots) = 0 THEN w
    ELSE LET count == UnresolvedCount(w.dom)
             w1 == Mutated([w EXCEPT !.dom.roots[1].badge = BadgeFor(count)], "host")
         IN IF count > 0 THEN w1 ELSE closeUnresolvedList(w1)

\* the button is found by id, so it is the one of the first root; its text
\* and icon are rewritten on every call
updateUnresolvedButton(w) ==
    IF Len(w.dom.roots) = 0 THEN w
    ELSE LET count == UnresolvedCount(w.dom)
             w1 == Mutated([w EXCEPT !.dom.roots[1].badge = BadgeFor(count)], "controls")
         IN IF count > 0 THEN w1 ELSE closeUnresolvedList(w1)

\* click on the badge button
showUnresolvedConversations(w) ==
    IF w.dom.dropdown THEN closeUnresolvedList(w)
    ELSE IF UnresolvedCount(w.dom) = 0 THEN showNotification(w)
    ELSE Mutated([w EXCEPT !.dom.dropdown = TRUE], "host")

(***************************************************************************)
(* ui.js: merge status management.  Nodes are named: "body", "bucket"      *)
(* (#discussion_bucket), "timeline" (.discussion-timeline), "other" (any   *)
(* other container), "top" (the parent of the control root), "S" (the      *)
(* box's original next sibling), "anchor" (the node after the control      *)
(* root) and "null".                                                       *)
(***************************************************************************)
BUCKET_ID == "discussion_bucket"
PARENT_ID == "some-parent"
SIBLING_ID == "some-sibling"
MARKER_ID == "pr-sorter-restore-marker"

HomeNodes == {"body", "bucket", "timeline", "other"}

\* document.getElementById(id): the box's home parent or the sibling element
GetElementById(w, id) ==
    IF id = "" THEN "null"
    ELSE IF w.dom.home.id = id /\ w.dom.homeAttached THEN w.dom.home.node
    ELSE IF id = BUCKET_ID /\ w.page.bucket # "absent" THEN "bucket"
    ELSE IF w.dom.sib.kind = "element" /\ w.dom.sib.id = id /\ w.dom.sibPlace # "gone"
         THEN "S"
    ELSE "null"

\* safeQuery('#discussion_bucket') || safeQuery('.discussion-timeline') || body
FallbackParent(w) ==
    IF w.page.bucket # "absent" THEN "bucket"
    ELSE IF w.dom.hasTimeline THEN "timeline"
    ELSE "body"

\* moveMergeStatusToTop without the isConversationTab() check
moveMergeStatusOnAnyTab(w) ==
    IF ~w.dom.box.exists \/ w.dom.box.moved THEN w
    ELSE IF Len(w.dom.roots) = 0 THEN w
    ELSE LET hasNext == w.dom.box.next # "null"
             sibId == IF w.dom.sib.id # "" THEN w.dom.sib.id ELSE MARKER_ID
             w1 == IF hasNext /\ w.dom.sib.kind = "element"
                   THEN [w EXCEPT !.dom.sib.id = sibId]
                   ELSE w
         IN Mutated([w1 EXCEPT
                !.dom.box.moved = TRUE,
                !.dom.box.origParentId = w.dom.home.id,
                !.dom.box.origNextId = IF hasNext THEN sibId ELSE "",
                !.dom.box.parent = "top",
                !.dom.box.next = "anchor"], "host")

\* The parent's id is recorded as it is ("" when it has none); only the next
\* sibling is given an id when it lacks one.
moveMergeStatusToTop(w) ==
    IF ~isConversationTab(w.page) THEN w
    ELSE IF ~w.dom.box.exists \/ w.dom.box.moved THEN w
    ELSE IF Len(w.dom.roots) = 0 THEN w
    ELSE LET hasNext == w.dom.box.next # "null"
             \* originalNextSibling.id = marker when it has none; on a text
             \* node that sets a property, not an id of the document
             sibId == IF w.dom.sib.id # "" THEN w.dom.sib.id ELSE MARKER_ID
             w1 == IF hasNext /\ w.dom.sib.kind = "element"
                   THEN [w EXCEPT !.dom.sib.id = sibId]
                   ELSE w
         IN Mutated([w1 EXCEPT
                !.dom.box.moved = TRUE,
                !.dom.box.origParentId = w.dom.home.id,
                !.dom.box.origNextId = IF hasNext THEN sibId ELSE "",
                !.dom.box.parent = "top",
                !.dom.box.next = "anchor"], "host")

RestoreTarget(w) ==
    LET byId == GetElementById(w, w.dom.box.origParentId)
    IN [parent |-> IF byId # "null" THEN byId ELSE FallbackParent(w),
        next |-> GetElementById(w, w.dom.box.origNextId)]

\* originalParent.insertBefore(mergeBox, originalNextSibling) raises
\* NotFoundError when the reference node is not a child of originalParent
RestoreThrows(w) ==
    /\ w.dom.box.moved
    /\ RestoreTarget(w).next = "S"
    /\ \/ RestoreTarget(w).parent # w.dom.home.node
       \/ w.dom.sibPlace # "home"

restoreMergeStatusPosition(w) ==
    IF ~w.dom.box.moved THEN w
    ELSE IF RestoreThrows(w) THEN w
    ELSE Mutated([w EXCEPT
            !.dom.box.parent = RestoreTarget(w).parent,
            !.dom.box.next = RestoreTarget(w).next,
            !.dom.box.moved = FALSE,
            !.dom.box.origParentId = "",
            !.dom.box.origNextId = ""], "host")

(***************************************************************************)
(* content.js: initialisation, the reconciliation pass and the observer.   *)
(* Pending timers and promise continuations are named in `timers`:         *)
(*   "mergePref"    - .then/.catch of storage.sync.get(['moveMergeStatus'])*)
(*                    in init                                              *)
(*   "moveMerge"    - setTimeout(moveMergeStatusToTop, 500)                *)
(*   "loadPref"     - .then of loadSavedPreference() in init               *)
(*   "applySorting" - setTimeout(() => applySorting(sortToApply), 100)     *)
(*   "debounce"     - setTimeout(handleMutations, 300)                     *)
(*   "movePass"     - .then/.catch of the storage read in handleMutations  *)
(*   "notification" - removal of the toast                                 *)
(*   "retry"        - setTimeout(injectSortControls, 1000)                 *)
(*   "staleDebounce" - a debounce timer whose handle is no longer held     *)
(***************************************************************************)
TimerNames == {"mergePref", "moveMerge", "loadPref", "applySorting", "debounce",
               "movePass", "notification", "retry", "staleDebounce"}

\* result.moveMergeStatus !== false, and the catch branch moves as well
ShouldMove(w) == w.storage.sync = "failing" \/ w.storage.moveMergeStatus # "false"

\* init without the isInitialized check
initUnguarded(w) ==
    IF ~w.page.pull THEN w
    ELSE IF w.dom.readyState = "loading" THEN [w EXCEPT !.records.onLoad = TRUE]
    ELSE LET w1 == injectSortControls([w EXCEPT !.state.isInitialized = TRUE])
             w2 == [w1 EXCEPT !.timers = @ \cup
                       {IF w.storage.sync = "absent" THEN "moveMerge" ELSE "mergePref",
                        "loadPref"}]
         IN [w2 EXCEPT !.records.observing = TRUE, !.records.setups = @ + 1]

\* addEventListener("DOMContentLoaded", init) registers the same function
\* once, however often it is called
init(w) ==
    IF w.state.isInitialized THEN w
    ELSE IF ~w.page.pull THEN w
    ELSE IF w.dom.readyState = "loading" THEN [w EXCEPT !.records.onLoad = TRUE]
    ELSE LET w1 == injectSortControls([w EXCEPT !.state.isInitialized = TRUE])
             w2 == [w1 EXCEPT !.timers = @ \cup
                       {IF w.storage.sync = "absent" THEN "moveMerge" ELSE "mergePref",
                        "loadPref"}]
         IN [w2 EXCEPT !.records.observing = TRUE, !.records.setups = @ + 1]

\* loadSavedPreference: the stored mode when it is one of SORT_OPTIONS
loadSavedPreference(w) ==
    IF w.storage.sync = "ok" /\ w.storage.sortPreference \in SortModes
    THEN [w EXCEPT !.state.currentSort = w.storage.sortPreference]
    ELSE w

\* handleMutations calling injectSortControls without clearing the flag
handleMutationsKeepingFlag(w) ==
    LET w1 == IF Len(w.dom.roots) = 0
              THEN injectSortControls(w)
              ELSE updateUnresolvedButton(updateControlsVisibility(w))
    IN IF isConversationTab(w1.page) /\ ~w1.dom.box.moved /\ w1.storage.sync # "absent"
       THEN [w1 EXCEPT !.timers = @ \cup {"movePass"}]
       ELSE w1

handleMutations(w) ==
    LET w1 == IF Len(w.dom.roots) = 0
              THEN injectSortControls([w EXCEPT !.state.sortControlsInjected = FALSE])
              ELSE updateUnresolvedButton(updateControlsVisibility(w))
    IN IF isConversationTab(w1.page) /\ ~w1.dom.box.moved /\ w1.storage.sync # "absent"
       THEN [w1 EXCEPT !.timers = @ \cup {"movePass"}]
       ELSE w1

\* the records the filter of the observer callback looks for
InsideControlsOnly(target) == target = "controls"

InsideOwnElements(target) == target \in {"controls", "notification"}

\* setTimeout returns a handle different from the one just cleared
NewHandle(h) == IF h = 1 THEN 2 ELSE 1

\* clearTimeout(state.debounceTimer): the timer of that handle, when it is
\* still pending, is the one named "debounce"
clearTimeout(w) == [w EXCEPT !.timers = @ \ {"debounce"}]

\* state.debounceTimer = setTimeout(handleMutations, 300): a debounce timer
\* that is still pending when its handle is overwritten stays pending as
\* "staleDebounce"
setDebounceTimer(w) ==
    [w EXCEPT !.timers = (@ \cup {"debounce"}) \cup
                            (IF "debounce" \in @ THEN {"staleDebounce"} ELSE {}),
              !.state.debounceTimer = NewHandle(@)]

\* the observer callback without clearTimeout
observerCallbackNoClear(w, mutations) ==
    IF \E target \in mutations : InsideOwnElements(target) THEN w
    ELSE setDebounceTimer(w)

\* the MutationObserver callback for one batch of records
observerCallback(w, mutations) ==
    IF \E target \in mutations : InsideOwnElements(target) THEN w
    ELSE setDebounceTimer(IF w.state.debounceTimer # 0 THEN clearTimeout(w) ELSE w)

\* a timer or continuation t, removed from the pending set, runs
RunTimer(w, t, sorted) ==
    CASE t = "mergePref" -> IF ShouldMove(w) THEN [w EXCEPT !.timers = @ \cup {"moveMerge"}]
                            ELSE w
      [] t = "moveMerge" -> moveMergeStatusToTop(w)
      [] t = "loadPref" ->
            LET w1 == loadSavedPreference(w)
            IN [updateSortIndicator(w1, w1.state.currentSort) EXCEPT
                   !.state.sortToApply = w1.state.currentSort,
                   !.timers = @ \cup {"applySorting"}]
      [] t = "applySorting" -> applySorting(w, w.state.sortToApply, sorted)
      [] t \in {"debounce", "staleDebounce"} -> handleMutations(w)
      [] t = "movePass" -> IF ShouldMove(w) THEN moveMergeStatusToTop(w) ELSE w
      [] t = "notification" ->
            IF w.dom.notification
            THEN Mutated([w EXCEPT !.dom.notification = FALSE], "host")
            ELSE w
      [] OTHER -> injectSortControls(w)

(***************************************************************************)
(* History: the last engine operation, the mode it applied, currentSort    *)
(* and the child list before it ran, and whether it got past the no-op     *)
(* guard of applySorting.                                                  *)
(***************************************************************************)
NoOp == [op |-> "none", mode |-> NONE, from |-> NONE, before |-> <<>>, ran |-> FALSE]

SortRecord(op, mode) ==
    [op |-> op, mode |-> mode, from |-> state.currentSort, before |-> dom.children,
     ran |-> dom.hasContainer /\ Len(dom.children) > 0]

(***************************************************************************)
(* Actions of the sort engine.                                             *)
(***************************************************************************)
\* the "sort" message: applySorting(request.sortOption)
SortMessage(sortOption) ==
    /\ \E sorted \in SortOutcomes(dom.children, sortOption) :
          Commit(applySorting(World, sortOption, sorted))
    /\ last' = SortRecord("sort", sortOption)

\* the "toggleSort" message (keyboard shortcut)
ToggleSortMessage ==
    /\ \E sorted \in SortOutcomes(dom.children, NextOption(state.currentSort)) :
          Commit(toggleSort(World, sorted))
    /\ last' = SortRecord("toggleSort", NextOption(state.currentSort))

\* click on a mode button of root r: the buttons of that root are marked,
\* then applySorting(btn.dataset.sort)
ClickSortButton(r, b) ==
    /\ r \in 1..Len(dom.roots)
    /\ LET w1 == [World EXCEPT !.dom.roots[r].active = {b}]
       IN \E sorted \in SortOutcomes(dom.children, b) :
             Commit(applySorting(w1, b, sorted))
    /\ last' = SortRecord("click", b)

\* the toast's removal timer
NotificationTimer ==
    /\ "notification" \in timers
    /\ Commit(Mutated([World EXCEPT !.dom.notification = FALSE,
                                    !.timers = @ \ {"notification"}], "host"))
    /\ UNCHANGED last

\* a page without a merge status box
NoBox == [exists |-> FALSE, parent |-> "null", next |-> "null", moved |-> FALSE,
          origParentId |-> "", origNextId |-> ""]

(***************************************************************************)
(* SortSpec: one sort request applied to every child list within the       *)
(* bounds, on a page where the controls are injected and no observer runs. *)
(***************************************************************************)
SortInit ==
    /\ state = [currentSort |-> DATE_NEWEST, sortControlsInjected |-> TRUE,
                isInitialized |-> TRUE, debounceTimer |-> 0,
                sortToApply |-> NONE]
    /\ \E c \in ChildLists, has \in BOOLEAN :
          /\ (~has => c = <<>>)
          /\ dom = [hasContainer |-> has, children |-> c,
                    roots |-> <<NewRoot([children |-> c])>>,
                    notification |-> FALSE, dropdown |-> FALSE,
                    box |-> NoBox, home |-> [node |-> "bucket", id |-> BUCKET_ID],
                    sib |-> [kind |-> "none", id |-> ""], hasTimeline |-> FALSE,
                 readyState |-> "complete",
                 homeAttached |-> TRUE, sibPlace |-> "home"]
    /\ page = ConversationPage
    /\ storage = [sync |-> "ok", sortPreference |-> NONE, local |-> NONE,
                  moveMergeStatus |-> "unset"]
    /\ timers = {}
    /\ records = [observing |-> FALSE, queue |-> {}, setups |-> 0, onLoad |-> FALSE]
    /\ last = NoOp

SortRequest ==
    /\ last.op = "none"
    /\ \E m \in SortModes : SortMessage(m)

ToggleRequest ==
    /\ last.op = "none"
    /\ ToggleSortMessage

SortNext ==
    \/ SortRequest
    \/ ToggleRequest

SortSpec == SortInit /\ [][SortNext]_vars

(***************************************************************************)
(* PlaceSpec: the "updateMergeStatusPreference" message on every starting  *)
(* position of the merge status box.  `last` holds the operation, the one  *)
(* before it, the position the box had before the last move, and the tree  *)
(* before the operation.                                                   *)
(***************************************************************************)
BoxPosition(d) == [parent |-> d.box.parent, next |-> d.box.next]

Homes ==
    {[node |-> "bucket", id |-> BUCKET_ID]}
        \cup [node : HomeNodes \ {"bucket"}, id : {"", PARENT_ID}]

Siblings ==
    {[kind |-> "none", id |-> ""], [kind |-> "text", id |-> ""],
     [kind |-> "element", id |-> ""], [kind |-> "element", id |-> SIBLING_ID]}

\* the box as the page delivers it under home h, before sibling sb
BoxAt(h, sb) ==
    [exists |-> TRUE, parent |-> h.node,
     next |-> IF sb.kind = "none" THEN "null" ELSE "S",
     moved |-> FALSE, origParentId |-> "", origNextId |-> ""]

\* case "updateMergeStatusPreference" of the message listener; an exception
\* of restoreMergeStatusPosition is caught by the listener's try/catch
MergeStatusMessage(shouldMove) ==
    /\ records.queue = {}
    /\ IF shouldMove
       THEN /\ Commit(moveMergeStatusToTop(World))
            /\ last' = [op |-> "move", prev |-> last.op,
                        start |-> IF dom.box.moved THEN last.start ELSE BoxPosition(dom),
                        before |-> dom]
       ELSE /\ Commit(restoreMergeStatusPosition(World))
            /\ last' = [op |-> "restore", prev |-> last.op, start |-> last.start,
                        before |-> dom]

PlaceInit ==
    /\ state = [currentSort |-> DATE_NEWEST, sortControlsInjected |-> TRUE,
                isInitialized |-> TRUE, debounceTimer |-> 0, sortToApply |-> NONE]
    /\ \E h \in Homes, sb \in Siblings, hasBox \in BOOLEAN, hasRoot \in BOOLEAN :
          dom = [hasContainer |-> TRUE, children |-> <<>>,
                 roots |-> IF hasRoot THEN <<NewRoot([children |-> <<>>])>> ELSE <<>>,
                 notification |-> FALSE, dropdown |-> FALSE,
                 box |-> IF hasBox THEN BoxAt(h, sb) ELSE NoBox,
                 home |-> h, sib |-> sb, hasTimeline |-> h.node = "timeline",
                 readyState |-> "complete",
                 homeAttached |-> TRUE, sibPlace |-> "home"]
    /\ page \in {ConversationPage, FilesPage}
    /\ storage = [sync |-> "ok", sortPreference |-> NONE, local |-> NONE,
                  moveMergeStatus |-> "unset"]
    /\ timers = {}
    /\ records = [observing |-> FALSE, queue |-> {}, setups |-> 0, onLoad |-> FALSE]
    /\ last = [op |-> "none", prev |-> "none", start |-> BoxPosition(dom),
               before |-> dom]

PlaceNext == \E shouldMove \in BOOLEAN : MergeStatusMessage(shouldMove)

PlaceSpec == PlaceInit /\ [][PlaceNext]_vars

(***************************************************************************)
(* Spec: the reconciliation loop.  The content script is loaded into a     *)
(* page; the host removes the control root, resolves threads, changes the  *)
(* tree and navigates between tabs; the observer delivers each task's      *)
(* records before the next task runs.  `last` holds the last step, and the *)
(* batch, the debounce handle, the pending debounce timer, the number of   *)
(* control roots and sortControlsInjected before it.                       *)
(***************************************************************************)
LoopRecord(op) ==
    [op |-> op, batch |-> records.queue, handle |-> state.debounceTimer,
     pending |-> "debounce" \in timers, roots |-> Len(dom.roots),
     injected |-> state.sortControlsInjected]

Threads == {MkElement(1, [time |-> [kind |-> "ok", v |-> 1], unres |-> u]) : u \in BOOLEAN}

LoopLists == UNION {[1..n -> Threads] : n \in 0..MaxThreads}

LoopPages == {ConversationPage, FilesPage, SSOPage}

Initialize ==
    /\ ~state.isInitialized
    /\ Commit(init(World))
    /\ last' = LoopRecord("init")

\* the pending timer or continuation t runs, once the records of the
\* previous task are delivered
TimerRuns(t) ==
    /\ t \in timers
    /\ records.queue = {}
    /\ LET w == [World EXCEPT !.timers = @ \ {t}]
       IN \E sorted \in IF t = "applySorting"
                        THEN SortOutcomes(dom.children, state.sortToApply)
                        ELSE {<<>>} :
             Commit(RunTimer(w, t, sorted))

Timer(t) ==
    /\ TimerRuns(t)
    /\ last' = LoopRecord(t)

\* the microtask that hands the queued records to the observer callback
ObserverRuns ==
    /\ records.queue # {}
    /\ Commit(observerCallback([World EXCEPT !.records.queue = {}], records.queue))

ObserverDelivers ==
    /\ ObserverRuns
    /\ last' = LoopRecord("observer")

HostRemovesRoot ==
    /\ records.queue = {}
    /\ Len(dom.roots) > 0
    /\ Commit(Mutated([World EXCEPT !.dom.roots = Tail(@)], "host"))
    /\ last' = LoopRecord("removeRoot")

\* data-resolved of thread i stops being "false"; attribute changes are not
\* observed (observe(document.body, {childList, subtree}))
HostResolves(i) ==
    /\ records.queue = {}
    /\ i \in 1..Len(dom.children)
    /\ dom.children[i].unres
    /\ Commit([World EXCEPT !.dom.children[i].unres = FALSE])
    /\ last' = LoopRecord("resolve")

\* any other change of the tree by the host or another script
HostMutates(batch) ==
    /\ records.queue = {}
    /\ records.observing
    /\ batch # {}
    /\ "controls" \in batch => Len(dom.roots) > 0
    /\ "notification" \in batch => dom.notification
    /\ Commit([World EXCEPT !.records.queue = batch])
    /\ last' = LoopRecord("mutate")

HostNavigates(p) ==
    /\ records.queue = {}
    /\ p # page
    /\ Commit(Mutated([World EXCEPT !.page = p], "host"))
    /\ last' = LoopRecord("navigate")

ClickUnresolvedButton ==
    /\ records.queue = {}
    /\ Len(dom.roots) > 0
    /\ dom.roots[1].shown
    /\ Commit(showUnresolvedConversations(World))
    /\ last' = LoopRecord("clickUnresolved")

Init ==
    /\ state = [currentSort |-> DATE_NEWEST, sortControlsInjected |-> FALSE,
                isInitialized |-> FALSE, debounceTimer |-> 0, sortToApply |-> NONE]
    /\ \E c \in LoopLists, hasBox \in BOOLEAN :
          dom = [hasContainer |-> TRUE, children |-> c, roots |-> <<>>,
                 notification |-> FALSE, dropdown |-> FALSE,
                 box |-> IF hasBox
                         THEN BoxAt([node |-> "bucket", id |-> BUCKET_ID],
                                    [kind |-> "none", id |-> ""])
                         ELSE NoBox,
                 home |-> [node |-> "bucket", id |-> BUCKET_ID],
                 sib |-> [kind |-> "none", id |-> ""], hasTimeline |-> FALSE,
                 readyState |-> "complete",
                 homeAttached |-> TRUE, sibPlace |-> "home"]
    /\ page \in LoopPages
    /\ storage = [sync |-> "ok", sortPreference |-> NONE, local |-> NONE,
                  moveMergeStatus |-> "unset"]
    /\ timers = {}
    /\ records = [observing |-> FALSE, queue |-> {}, setups |-> 0, onLoad |-> FALSE]
    /\ last = [op |-> "none", batch |-> {}, handle |-> 0, pending |-> FALSE,
               roots |-> 0, injected |-> FALSE]

Next ==
    \/ Initialize
    \/ \E t \in TimerNames : Timer(t)
    \/ ObserverDelivers
    \/ HostRemovesRoot
    \/ \E i \in 1..MaxThreads : HostResolves(i)
    \/ \E batch \in SUBSET {"host", "controls", "notification"} : HostMutates(batch)
    \/ \E p \in LoopPages : HostNavigates(p)
    \/ ClickUnresolvedButton

Spec == Init /\ [][Next]_vars

\* timers and microtasks that are due do run; the host owes nothing
FairSpec ==
    /\ Spec
    /\ WF_vars(ObserverDelivers)
    /\ WF_vars(\E t \in TimerNames : Timer(t))

(***************************************************************************)
(* Properties of the sort engine (SortSpec).                               *)
(***************************************************************************)
Occurrences(s, e) == Cardinality({i \in 1..Len(s) : s[i] = e})

IsPermutation(s, t) ==
    /\ Len(s) = Len(t)
    /\ \A e \in Range(s) \cup Range(t) : Occurrences(s, e) = Occurrences(t, e)

Reverse(s) == [i \in 1..Len(s) |-> s[Len(s) + 1 - i]]

RECURSIVE SelectElements(_, _)
\* the elements of s whose unresolved flag is u, in the order of s
SelectElements(s, u) ==
    IF s = <<>> THEN <<>>
    ELSE (IF Head(s).unres = u THEN <<Head(s)>> ELSE <<>>) \o SelectElements(Tail(s), u)

Sorted == last.op # "none" /\ last.ran

\* two children of the same group whose dates both parse (or default to the
\* epoch) are in ascending order of time
AscendingWithinGroups(s) ==
    \A i \in 1..Len(s), j \in 1..Len(s) :
        (i < j /\ s[i].unres = s[j].unres /\ ~DateOf(s[i]).nan /\ ~DateOf(s[j]).nan)
            => DateOf(s[i]).v <= DateOf(s[j]).v

\* no NaN date, and no two elements with the same time value
DistinctValidTimes(s) ==
    /\ \A i \in 1..Len(s) : ~DateOf(s[i]).nan
    /\ \A i \in 1..Len(s), j \in 1..Len(s) : i # j => DateOf(s[i]).v # DateOf(s[j]).v

\* C1: after applySorting(m), for every mode m and child list C, the children
\* of the container are a permutation of C (nothing added, removed or
\* duplicated), and the control root outside the container stays where it is.
C1_SortIsPermutation ==
    last.op # "none" =>
        /\ IsPermutation(dom.children, last.before)
        /\ Len(dom.roots) = 1

C1_Witness ==
    /\ last.op = "sort" /\ last.ran
    /\ Len(last.before) = MaxLen
    /\ dom.children # last.before

\* C2: toggleSort() cycles over exactly {date-newest, date-oldest}: from
\* date-newest it selects date-oldest, from date-oldest date-newest, and it
\* never selects resolved-last or unresolved-last.
C2_ToggleTwoCycle ==
    last.op = "toggleSort" =>
        /\ (last.from = DATE_NEWEST => state.currentSort = DATE_OLDEST)
        /\ (last.from = DATE_OLDEST => state.currentSort = DATE_NEWEST)
        /\ state.currentSort \notin {RESOLVED_LAST, UNRESOLVED_LAST}

\* C3: after applySorting(unresolved-last) every resolved child precedes every
\* unresolved child, and each group is in ascending timestamp order.
C3_UnresolvedLast ==
    (Sorted /\ last.mode = UNRESOLVED_LAST) =>
        /\ \A i \in 1..Len(dom.children), j \in 1..Len(dom.children) :
              (~dom.children[i].unres /\ dom.children[j].unres) => i < j
        /\ AscendingWithinGroups(dom.children)

\* C4: after applySorting(resolved-last) every unresolved child precedes every
\* resolved child, and each group is in ascending timestamp order.
C4_ResolvedLast ==
    (Sorted /\ last.mode = RESOLVED_LAST) =>
        /\ \A i \in 1..Len(dom.children), j \in 1..Len(dom.children) :
              (dom.children[i].unres /\ ~dom.children[j].unres) => i < j
        /\ AscendingWithinGroups(dom.children)

\* C5: when applySorting(unresolved-last) follows applySorting(resolved-last)
\* (the list it starts from is an order resolved-last produces), the two groups
\* change places and the order inside each group stays the same: the result
\* is the resolved children followed by the unresolved children.
C5_GroupsSwapped ==
    (Sorted /\ last.mode = UNRESOLVED_LAST
        /\ last.before \in SortOutcomes(last.before, RESOLVED_LAST)) =>
        dom.children = SelectElements(last.before, FALSE) \o SelectElements(last.before, TRUE)

\* C6: for a child list whose dates are valid and pairwise distinct, the order
\* applySorting(date-newest) produces is the reverse of the order
\* applySorting(date-oldest) produces for the same list.
C6_NewestReversesOldest ==
    (Sorted /\ last.mode = DATE_NEWEST /\ DistinctValidTimes(last.before)) =>
        \A oldest \in SortOutcomes(last.before, DATE_OLDEST) :
            dom.children = Reverse(oldest)

C6_Witness ==
    /\ Sorted /\ last.mode = DATE_NEWEST
    /\ DistinctValidTimes(last.before)
    /\ Len(last.before) > 1
    /\ dom.children # last.before

(***************************************************************************)
(* Properties of the reconciliation loop (Spec, FairSpec).                 *)
(***************************************************************************)
\* C7: the tree never holds more than one control root, and calling
\* injectSortControls twice in a row from any reachable state adds at most
\* one root: exactly one remains when the first call injected.
C7_AtMostOneRoot ==
    LET once == injectSortControls(World)
        twice == injectSortControls(once)
    IN /\ Len(dom.roots) <= 1
       /\ Len(twice.dom.roots) <= 1
       /\ Len(once.dom.roots) = 1 => Len(twice.dom.roots) = 1

\* a reconciliation pass found no root and injected one again
C7_Witness ==
    /\ last.op = "debounce"
    /\ last.roots = 0
    /\ Len(dom.roots) = 1

\* C8: after the observer callback has handled a batch whose records all
\* target the control subtree or the notification, the debounce handle and
\* the pending debounce timer are what they were before the batch.
C8_OwnBatchIgnored ==
    (/\ last.op = "observer"
     /\ \A target \in last.batch : target \in {"controls", "notification"})
        => /\ state.debounceTimer = last.handle
           /\ ("debounce" \in timers) = last.pending

\* a batch inside the notification arrived while a pass was already due
C8_Witness ==
    /\ last.op = "observer"
    /\ last.batch = {"notification"}
    /\ last.pending
    /\ "debounce" \in timers

\* C10: once every thread counted by an "N Unresolved" badge is resolved,
\* the badge comes to show "All Resolved" with the dropdown closed (unless
\* the root is removed or a thread becomes unresolved again).
C10_BadgeFollowsResolution ==
    (/\ Len(dom.roots) > 0
     /\ dom.roots[1].badge.n >= 1
     /\ UnresolvedCount(dom) = 0)
        ~> \/ Len(dom.roots) = 0
           \/ UnresolvedCount(dom) > 0
           \/ dom.roots[1].badge.n = 0 /\ ~dom.dropdown

\* C13: when a reconciliation pass ends, sortControlsInjected is true
\* exactly if a control root is in the tree; a pass that finds the root gone
\* clears the flag before it tries to inject again.
C13_FlagMatchesTree ==
    last.op = "debounce" => (state.sortControlsInjected <=> Len(dom.roots) > 0)

\* the host removed the root and left the conversation tab: the pass found
\* the flag still set, cleared it and could not inject
C13_Witness ==
    /\ last.op = "debounce"
    /\ last.injected
    /\ last.roots = 0
    /\ ~state.sortControlsInjected
    /\ Len(dom.roots) = 0

(***************************************************************************)
(* Properties of the merge status placement (PlaceSpec).                   *)
(***************************************************************************)
\* C9: a restore that directly follows a move leaves the box under the
\* parent and before the next sibling it had before the move.
C9_MoveRestoreRoundTrip ==
    (last.op = "restore" /\ last.prev = "move") => BoxPosition(dom) = last.start

\* C17: a move relocates the box to the place right after the control root
\* when the root exists, the tab is the conversation tab and the box is not
\* marked as moved; otherwise it leaves the tree, and the box's recorded
\* metadata in it, as they were.
C17_MoveFrame ==
    last.op = "move"
        => IF /\ Len(last.before.roots) > 0
              /\ isConversationTab(page)
              /\ last.before.box.exists
              /\ ~last.before.box.moved
           THEN /\ dom.box.moved
                /\ dom.box.parent = "top"
                /\ dom.box.next = "anchor"
           ELSE dom = last.before

\* a second move right after a successful one changed nothing
C17_Witness ==
    /\ last.op = "move"
    /\ last.prev = "move"
    /\ last.before.box.moved
    /\ dom.box.parent = "top"
    /\ dom = last.before

\* C18: a restore of a moved box leaves it without the moved marker and the
\* recorded parent and sibling ids, so that a following move relocates it
\* again.
C18_RestoreClearsMetadata ==
    (last.op = "restore" /\ last.before.box.moved)
        => /\ ~dom.box.moved
           /\ dom.box.origParentId = ""
           /\ dom.box.origNextId = ""
           /\ moveMergeStatusToTop(World).dom.box.parent = "top"

(***************************************************************************)
(* TabSpec: tab detection on every page within Pages, applied by the       *)
(* hashchange listener to a page whose controls are injected.              *)
(***************************************************************************)
\* handleHashChange: isConversationTab() for the log, updateControlsVisibility()
handleHashChange(w) == updateControlsVisibility(w)

HashChange ==
    /\ records.queue = {}
    /\ Commit(handleHashChange(World))
    /\ last' = [op |-> "hashchange", isConv |-> isConversationTab(page)]

TabInit ==
    /\ state = [currentSort |-> DATE_NEWEST, sortControlsInjected |-> TRUE,
                isInitialized |-> TRUE, debounceTimer |-> 0, sortToApply |-> NONE]
    /\ dom = [hasContainer |-> TRUE, children |-> <<>>,
              roots |-> <<NewRoot([children |-> <<>>])>>,
              notification |-> FALSE, dropdown |-> FALSE,
              box |-> NoBox, home |-> [node |-> "bucket", id |-> BUCKET_ID],
              sib |-> [kind |-> "none", id |-> ""], hasTimeline |-> FALSE,
                 readyState |-> "complete",
                 homeAttached |-> TRUE, sibPlace |-> "home"]
    /\ page \in Pages
    /\ storage = [sync |-> "ok", sortPreference |-> NONE, local |-> NONE,
                  moveMergeStatus |-> "unset"]
    /\ timers = {}
    /\ records = [observing |-> TRUE, queue |-> {}, setups |-> 1, onLoad |-> FALSE]
    /\ last = [op |-> "none", isConv |-> FALSE]

TabNext == HashChange

TabSpec == TabInit /\ [][TabNext]_vars

\* C11: a page whose pathname contains /files, /commits or /checks is never
\* taken for the conversation tab, whatever its hash, containers and tab
\* navigation, and the hashchange listener hides the controls on it.
C11_PathShortCircuit ==
    page.pathTab \in {"files", "commits", "checks"}
        => /\ ~isConversationTab(page)
           /\ last.op = "hashchange" => ~last.isConv /\ ~dom.roots[1].shown

\* /commits in the path while every other signal says conversation
C11_Witness ==
    /\ last.op = "hashchange"
    /\ page.pathTab = "commits"
    /\ ~page.hashTab /\ ~page.otherVisible
    /\ page.bucket = "visible" /\ page.nav = "conversation"
    /\ ~dom.roots[1].shown

(***************************************************************************)
(* MsgSpec: the chrome.runtime.onMessage listener of an initialised        *)
(* content script, for any sequence of requests.  `last` holds the last    *)
(* request, the responses sent for it, whether an exception left the       *)
(* listener, and the world before and after it.                            *)
(***************************************************************************)
KnownActions == {"sort", "toggleSort", "getStatus", "updateMergeStatusPreference", "ping"}

\* a request: its action, the sortOption and shouldMove payloads, and
\* whether the message is null (reading request.action then raises)
Requests ==
    [action : KnownActions \cup {BOGUS}, sortOption : SortModes \cup {BOGUS},
     shouldMove : BOOLEAN, null : BOOLEAN]

\* the requests that differ in what the listener reads of them
DistinctRequests ==
    {r \in Requests :
        /\ r.null => r.action = BOGUS
        /\ r.action # "sort" => r.sortOption = BOGUS
        /\ r.action # "updateMergeStatusPreference" => ~r.shouldMove}

\* the mode a request applies
RequestMode(w, request) ==
    IF request.action = "sort" THEN request.sortOption
    ELSE NextOption(w.state.currentSort)

\* the switch statement: the world it leaves, the responses it sent and
\* whether it raised
SwitchOnAction(w, request, sorted) ==
    IF request.null THEN [w |-> w, responses |-> <<>>, threw |-> TRUE]
    ELSE CASE request.action = "sort" ->
                [w |-> applySorting(w, request.sortOption, sorted),
                 responses |-> <<"success">>, threw |-> FALSE]
           [] request.action = "toggleSort" ->
                [w |-> toggleSort(w, sorted), responses |-> <<"success">>, threw |-> FALSE]
           [] request.action = "getStatus" ->
                [w |-> w, responses |-> <<"status">>, threw |-> FALSE]
           [] request.action = "updateMergeStatusPreference" ->
                IF request.shouldMove
                THEN [w |-> moveMergeStatusToTop(w), responses |-> <<"success">>,
                      threw |-> FALSE]
                ELSE IF RestoreThrows(w)
                THEN [w |-> w, responses |-> <<>>, threw |-> TRUE]
                ELSE [w |-> restoreMergeStatusPosition(w), responses |-> <<"success">>,
                      threw |-> FALSE]
           [] request.action = "ping" ->
                [w |-> w, responses |-> <<"pong">>, threw |-> FALSE]
           [] OTHER -> [w |-> w, responses |-> <<"error">>, threw |-> FALSE]

\* the listener without its try/catch
onMessageUncaught(w, request, sorted) ==
    LET r == SwitchOnAction(w, request, sorted)
    IN [w |-> r.w, responses |-> r.responses, escaped |-> r.threw]

\* try { switch ... } catch (e) { sendResponse({ error: e.message }) }
onMessage(w, request, sorted) ==
    LET r == SwitchOnAction(w, request, sorted)
    IN [w |-> r.w,
        responses |-> IF r.threw THEN Append(r.responses, "error") ELSE r.responses,
        escaped |-> FALSE]

MessageArrives(request) ==
    /\ records.queue = {}
    /\ \E sorted \in IF request.action \in {"sort", "toggleSort"} /\ ~request.null
                     THEN SortOutcomes(dom.children, RequestMode(World, request))
                     ELSE {<<>>} :
          LET r == onMessage(World, request, sorted)
          IN /\ Commit(r.w)
             /\ last' = [op |-> "message", request |-> request,
                         responses |-> r.responses, escaped |-> r.escaped,
                         before |-> World, after |-> r.w]

MsgInit ==
    /\ state = [currentSort |-> DATE_NEWEST, sortControlsInjected |-> TRUE,
                isInitialized |-> TRUE, debounceTimer |-> 0, sortToApply |-> NONE]
    /\ \E c \in LoopLists, has \in BOOLEAN, plain \in BOOLEAN :
          /\ (~has => c = <<>>)
          /\ LET h == IF plain THEN [node |-> "bucket", id |-> BUCKET_ID]
                      ELSE [node |-> "other", id |-> ""]
                 sb == IF plain THEN [kind |-> "none", id |-> ""]
                       ELSE [kind |-> "element", id |-> SIBLING_ID]
             IN dom = [hasContainer |-> has, children |-> c,
                       roots |-> <<NewRoot([children |-> c])>>,
                       notification |-> FALSE, dropdown |-> FALSE,
                       box |-> BoxAt(h, sb), home |-> h, sib |-> sb,
                       hasTimeline |-> FALSE,
                 readyState |-> "complete",
                 homeAttached |-> TRUE, sibPlace |-> "home"]
    /\ page = ConversationPage
    /\ storage = [sync |-> "ok", sortPreference |-> NONE, local |-> NONE,
                  moveMergeStatus |-> "unset"]
    /\ timers = {}
    /\ records = [observing |-> FALSE, queue |-> {}, setups |-> 0, onLoad |-> FALSE]
    /\ last = [op |-> "none", request |-> CHOOSE r \in DistinctRequests : r.null,
               responses |-> <<>>, escaped |-> FALSE, before |-> World,
               after |-> World]

MsgNext ==
    \/ \E request \in DistinctRequests : MessageArrives(request)
    \/ NotificationTimer

MsgSpec == MsgInit /\ [][MsgNext]_vars

(***************************************************************************)
(* Properties of the message listener (MsgSpec).                           *)
(***************************************************************************)
\* C12: currentSort is always one of the four modes of SORT_OPTIONS, and it
\* is date-newest as long as no request has been handled.
C12_CurrentSortEnumerated ==
    /\ state.currentSort \in SortModes
    /\ last.op = "none" => state.currentSort = DATE_NEWEST

\* C16: every request gets exactly one response and no exception leaves the
\* listener; an unknown action is answered with an error and changes
\* neither the engine state nor the host tree.
C16_OneResponse ==
    last.op = "message"
        => /\ Len(last.responses) = 1
           /\ ~last.escaped
           /\ last.request.action \notin KnownActions
                 => /\ last.responses = <<"error">>
                    /\ last.after.state = last.before.state
                    /\ last.after.dom = last.before.dom

\* a restore request whose insertBefore raised was answered with an error
C16_Witness ==
    /\ last.op = "message"
    /\ last.request.action = "updateMergeStatusPreference"
    /\ ~last.request.shouldMove
    /\ RestoreThrows(last.before)
    /\ last.responses = <<"error">>

\* C19: a sort request that finds no comment container, or an empty one,
\* leaves the host tree, currentSort and the stored preference unchanged.
C19_EmptySortIsNoOp ==
    (/\ last.op = "message"
     /\ last.request.action = "sort"
     /\ ~last.request.null
     /\ ~last.before.dom.hasContainer \/ Len(last.before.dom.children) = 0)
        => /\ last.after.dom = last.before.dom
           /\ last.after.state.currentSort = last.before.state.currentSort
           /\ last.after.storage = last.before.storage

(***************************************************************************)
(* StartSpec: sort requests that arrive while the content script starts.   *)
(* init() has not run yet; its storage continuations and timers interleave *)
(* with sort messages and clicks on the mode buttons.  `last` holds the    *)
(* last request, the mode it asked for and the number of requests so far.  *)
(***************************************************************************)
\* child lists whose datetime attributes all parse
StartLists ==
    {c \in ChildLists :
        Len(c) <= MaxStartLen /\ \A i \in 1..Len(c) : c[i].time.kind # "bad"}

StartInitialize ==
    /\ ~state.isInitialized
    /\ Commit(init(World))
    /\ UNCHANGED last

StartTimer(t) ==
    /\ TimerRuns(t)
    /\ UNCHANGED last

StartObserver ==
    /\ ObserverRuns
    /\ UNCHANGED last

\* the "sort" message with a mode of SORT_OPTIONS
StartSortMessage(sortOption) ==
    /\ state.isInitialized
    /\ records.queue = {}
    /\ last.n < MaxRequests
    /\ \E sorted \in SortOutcomes(dom.children, sortOption) :
          Commit(applySorting(World, sortOption, sorted))
    /\ last' = [op |-> "sort", asked |-> sortOption, n |-> last.n + 1]

\* a click on mode button b of the first root
StartClick(b) ==
    /\ records.queue = {}
    /\ last.n < MaxRequests
    /\ Len(dom.roots) > 0
    /\ \E sorted \in SortOutcomes(dom.children, b) :
          Commit(applySorting([World EXCEPT !.dom.roots[1].active = {b}], b, sorted))
    /\ last' = [op |-> "click", asked |-> b, n |-> last.n + 1]

StartInit ==
    /\ state = [currentSort |-> DATE_NEWEST, sortControlsInjected |-> FALSE,
                isInitialized |-> FALSE, debounceTimer |-> 0, sortToApply |-> NONE]
    /\ \E c \in StartLists :
          dom = [hasContainer |-> TRUE, children |-> c, roots |-> <<>>,
                 notification |-> FALSE, dropdown |-> FALSE,
                 box |-> NoBox, home |-> [node |-> "bucket", id |-> BUCKET_ID],
                 sib |-> [kind |-> "none", id |-> ""], hasTimeline |-> FALSE,
                 readyState |-> "complete",
                 homeAttached |-> TRUE, sibPlace |-> "home"]
    /\ page = ConversationPage
    /\ \E saved \in {NONE, DATE_OLDEST} :
          storage = [sync |-> "ok", sortPreference |-> saved, local |-> NONE,
                     moveMergeStatus |-> "unset"]
    /\ timers = {}
    /\ records = [observing |-> FALSE, queue |-> {}, setups |-> 0, onLoad |-> FALSE]
    /\ last = [op |-> "none", asked |-> NONE, n |-> 0]

StartNext ==
    \/ StartInitialize
    \/ \E t \in TimerNames : StartTimer(t)
    \/ StartObserver
    \/ \E m \in SortModes : StartSortMessage(m)
    \/ \E b \in SortButtons : StartClick(b)

StartSpec == StartInit /\ [][StartNext]_vars

\* C15: when no timer, storage callback or observer record is pending,
\* currentSort is the mode requested last and the comment container is in
\* an order that mode produces.
C15_LastRequestWins ==
    (/\ timers = {}
     /\ records.queue = {}
     /\ last.asked # NONE)
        => /\ state.currentSort = last.asked
           /\ dom.children \in SortOutcomes(dom.children, last.asked)

(***************************************************************************)
(* UnreadableSpec: the reconciliation loop on a page with a merge status   *)
(* box when the moveMergeStatus preference cannot be read: chrome.storage  *)
(* .sync is absent, or its get rejects.                                    *)
(***************************************************************************)
UnreadableInit ==
    /\ state = [currentSort |-> DATE_NEWEST, sortControlsInjected |-> FALSE,
                isInitialized |-> FALSE, debounceTimer |-> 0, sortToApply |-> NONE]
    /\ dom = [hasContainer |-> TRUE, children |-> <<>>, roots |-> <<>>,
              notification |-> FALSE, dropdown |-> FALSE,
              box |-> BoxAt([node |-> "bucket", id |-> BUCKET_ID],
                            [kind |-> "none", id |-> ""]),
              home |-> [node |-> "bucket", id |-> BUCKET_ID],
              sib |-> [kind |-> "none", id |-> ""], hasTimeline |-> FALSE,
                 readyState |-> "complete",
                 homeAttached |-> TRUE, sibPlace |-> "home"]
    /\ page \in {ConversationPage, FilesPage}
    /\ \E sync \in {"failing", "absent"}, stored \in {"unset", "false"} :
          storage = [sync |-> sync, sortPreference |-> NONE, local |-> NONE,
                     moveMergeStatus |-> stored]
    /\ timers = {}
    /\ records = [observing |-> FALSE, queue |-> {}, setups |-> 0, onLoad |-> FALSE]
    /\ last = [op |-> "none", batch |-> {}, handle |-> 0, pending |-> FALSE,
               roots |-> 0, injected |-> FALSE]

UnreadableNext ==
    \/ Initialize
    \/ \E t \in TimerNames : Timer(t)
    \/ ObserverDelivers
    \/ HostRemovesRoot
    \/ \E p \in {ConversationPage, FilesPage} : HostNavigates(p)

UnreadableSpec == UnreadableInit /\ [][UnreadableNext]_vars

\* C20: with an unreadable preference the engine moves the box by default:
\* once initialisation and every pass, timer and storage callback are done,
\* a box on the conversation tab next to an injected root has been moved.
C20_UnreadableDefaultsToMove ==
    (/\ state.isInitialized
     /\ timers = {}
     /\ records.queue = {}
     /\ isConversationTab(page)
     /\ Len(dom.roots) > 0
     /\ dom.box.exists)
        => dom.box.moved

(***************************************************************************)
(* SessionSpec: two page sessions sharing chrome.storage.sync.  In the     *)
(* first the user picks a mode with a sort button; the page is then        *)
(* reloaded (a new content script with a new state object), and the        *)
(* extension may be updated once, which runs migratePreferences in the     *)
(* background worker.                                                      *)
(***************************************************************************)
MaxSessions == 2

\* migratePreferences: a stored 'date-oldest' is rewritten to 'date-newest',
\* and a missing sortPreference key is given the default 'date-newest'; a
\* rejected storage call is caught and changes nothing
migratePreferences(w) ==
    IF w.storage.sync # "ok" THEN w
    ELSE [w EXCEPT !.storage.sortPreference =
                      IF @ \in {DATE_OLDEST, NONE} THEN DATE_NEWEST ELSE @]

\* chrome.runtime.onInstalled with reason 'update', between two page sessions
ExtensionUpdate ==
    /\ ~last.updated
    /\ ~state.isInitialized
    /\ Commit(migratePreferences(World))
    /\ last' = [last EXCEPT !.op = "update", !.updated = TRUE]

\* a click on mode button b during the first session, once its start-up
\* (the preference read and the 100 ms sort) is over
SessionClick(b) ==
    /\ last.session = 1
    /\ {"loadPref", "applySorting"} \cap timers = {}
    /\ records.queue = {}
    /\ Len(dom.roots) > 0
    /\ \E sorted \in SortOutcomes(dom.children, b) :
          Commit(applySorting([World EXCEPT !.dom.roots[1].active = {b}], b, sorted))
    /\ last' = [last EXCEPT !.op = "click", !.chosen = b]

\* the page is loaded again: the document and the content script's state
\* object are new, chrome.storage.sync is kept
PageReload ==
    /\ last.session < MaxSessions
    /\ state' = [currentSort |-> DATE_NEWEST, sortControlsInjected |-> FALSE,
                 isInitialized |-> FALSE, debounceTimer |-> 0, sortToApply |-> NONE]
    /\ dom' = [dom EXCEPT !.roots = <<>>, !.notification = FALSE, !.dropdown = FALSE]
    /\ timers' = {}
    /\ records' = [observing |-> FALSE, queue |-> {}, setups |-> 0, onLoad |-> FALSE]
    /\ UNCHANGED <<page, storage>>
    /\ last' = [last EXCEPT !.op = "reload", !.session = @ + 1]

SessionStep(A) ==
    /\ A
    /\ last' = [last EXCEPT !.op = "step"]

SessionInit ==
    /\ state = [currentSort |-> DATE_NEWEST, sortControlsInjected |-> FALSE,
                isInitialized |-> FALSE, debounceTimer |-> 0, sortToApply |-> NONE]
    /\ \E c \in StartLists :
          dom = [hasContainer |-> TRUE, children |-> c, roots |-> <<>>,
                 notification |-> FALSE, dropdown |-> FALSE,
                 box |-> NoBox, home |-> [node |-> "bucket", id |-> BUCKET_ID],
                 sib |-> [kind |-> "none", id |-> ""], hasTimeline |-> FALSE,
                 readyState |-> "complete",
                 homeAttached |-> TRUE, sibPlace |-> "home"]
    /\ page = ConversationPage
    /\ storage = [sync |-> "ok", sortPreference |-> DATE_NEWEST, local |-> NONE,
                  moveMergeStatus |-> "unset"]
    /\ timers = {}
    /\ records = [observing |-> FALSE, queue |-> {}, setups |-> 0, onLoad |-> FALSE]
    /\ last = [op |-> "none", chosen |-> NONE, session |-> 1, updated |-> FALSE]

SessionNext ==
    \/ SessionStep(~state.isInitialized /\ Commit(init(World)))
    \/ \E t \in TimerNames : SessionStep(TimerRuns(t))
    \/ SessionStep(ObserverRuns)
    \/ \E b \in SortButtons : SessionClick(b)
    \/ PageReload
    \/ ExtensionUpdate

SessionSpec == SessionInit /\ [][SessionNext]_vars

\* C21: a mode the user chose with a sort button in one session is the mode
\* the next session loads: once the next session's init has read the saved
\* preference, currentSort is the chosen mode, also when the extension was
\* updated in between.
C21_ChoiceRemembered ==
    (/\ last.session > 1
     /\ last.chosen # NONE
     /\ state.isInitialized
     /\ "loadPref" \notin timers)
        => state.currentSort = last.chosen

(***************************************************************************)
(* GateSpec: the three callers of the visibility gate (init, the           *)
(* reconciliation pass and the hashchange listener) on every page within   *)
(* Pages, with the control root absent, displayed or hidden.  `last` holds *)
(* the last step, and the roots and the injected flag before it.           *)
(***************************************************************************)
GateRecord(op) == [op |-> op, before |-> dom.roots, injected |-> state.sortControlsInjected]

GateInitialize ==
    /\ ~state.isInitialized
    /\ Commit(init(World))
    /\ last' = GateRecord("init")

GateTimer(t) ==
    /\ TimerRuns(t)
    /\ last' = GateRecord(t)

GateObserver ==
    /\ ObserverRuns
    /\ last' = GateRecord("observer")

GateHashChange ==
    /\ state.isInitialized
    /\ records.queue = {}
    /\ Commit(handleHashChange(World))
    /\ last' = GateRecord("hashchange")

\* a page on which the engine has not started, or one on which it runs with
\* a mutation batch debounced; a host re-render may have removed the root
\* (the flag stays set) or left it displayed or hidden
GateInit ==
    /\ \E started \in BOOLEAN, rs \in {<<>>} \cup {<<[NewRoot([children |-> <<>>]) EXCEPT !.shown = b]>> : b \in BOOLEAN} :
          /\ ~started => rs = <<>>
          /\ state = [currentSort |-> DATE_NEWEST, sortControlsInjected |-> started,
                      isInitialized |-> started,
                      debounceTimer |-> IF started THEN 1 ELSE 0, sortToApply |-> NONE]
          /\ dom = [hasContainer |-> TRUE, children |-> <<>>, roots |-> rs,
                    notification |-> FALSE, dropdown |-> FALSE,
                    box |-> NoBox, home |-> [node |-> "bucket", id |-> BUCKET_ID],
                    sib |-> [kind |-> "none", id |-> ""], hasTimeline |-> FALSE,
                 readyState |-> "complete",
                 homeAttached |-> TRUE, sibPlace |-> "home"]
          /\ timers = IF started THEN {"debounce"} ELSE {}
          /\ records = [observing |-> started, queue |-> {},
                        setups |-> IF started THEN 1 ELSE 0, onLoad |-> FALSE]
    /\ page \in Pages
    /\ storage = [sync |-> "ok", sortPreference |-> NONE, local |-> NONE,
                  moveMergeStatus |-> "unset"]
    /\ last = [op |-> "none", before |-> dom.roots, injected |-> state.sortControlsInjected]

GateNext ==
    \/ GateInitialize
    \/ \E t \in TimerNames : GateTimer(t)
    \/ GateObserver
    \/ GateHashChange

GateSpec == GateInit /\ [][GateNext]_vars

\* none of the five strategies of isConversationTab decides: no tab name in
\* the path or the hash, no other tab's container displayed, the discussion
\* bucket present but not displayed, and no selected tab that reads as
\* conversation or as another tab
Inconclusive(p) ==
    /\ p.pathTab = "none" /\ ~p.hashTab /\ ~p.otherVisible
    /\ p.bucket = "hidden"
    /\ p.nav \in {"none", "anchor"}

\* C22: a step that adds a control root to the tree runs on a page that
\* isConversationTab accepts and that shows no single sign-on prompt, and
\* isConversationTab rejects every page on which none of its strategies
\* decides.
C22_InjectionGated ==
    /\ Len(dom.roots) > Len(last.before)
          => isConversationTab(page) /\ ~isSSOLoginRequired(page)
    /\ Inconclusive(page) => ~isConversationTab(page) /\ Len(dom.roots) <= Len(last.before)

\* a pass injects the root on a page accepted by strategy 5 only
C22_Witness ==
    /\ last.op = "debounce"
    /\ Len(last.before) = 0 /\ Len(dom.roots) = 1
    /\ page.bucket = "hidden" /\ page.nav = "conversation"

\* C27: after a reconciliation pass and after a run of the hashchange
\* listener an existing control root is displayed exactly when
\* shouldShowControls holds, and the hashchange listener, which is
\* updateControlsVisibility alone, keeps the roots and the injected flag and
\* changes nothing of the root but its display.
C27_VisibilityFollowsGate ==
    /\ (last.op \in {"debounce", "hashchange"} /\ Len(dom.roots) > 0)
          => (dom.roots[1].shown <=> shouldShowControls(page))
    /\ last.op = "hashchange"
          => /\ Len(dom.roots) = Len(last.before)
             /\ state.sortControlsInjected = last.injected
             /\ \A i \in 1..Len(dom.roots) :
                   [dom.roots[i] EXCEPT !.shown = last.before[i].shown] = last.before[i]

\* the hashchange listener hides a displayed root behind a sign-on prompt
C27_Witness ==
    /\ last.op = "hashchange"
    /\ Len(last.before) = 1 /\ last.before[1].shown
    /\ page.sso /\ isConversationTab(page)
    /\ Len(dom.roots) = 1 /\ ~dom.roots[1].shown

\* C23: after the observer callback has handled a batch with at least one
\* record whose target lies outside the control subtree and the
\* notification, a new debounce timer is pending, whatever the targets of
\* the other records of the batch.
C23_OutsideRecordSchedules ==
    (last.op = "observer" /\ "host" \in last.batch)
        => /\ "debounce" \in timers
           /\ state.debounceTimer # last.handle

\* C24: the debounce is trailing and coalescing.  No debounce timer that a
\* later batch has superseded stays pending; after the observer callback has
\* handled a batch with no record inside the engine's own elements, the one
\* pending debounce timer is a new one; and when that timer has fired and
\* run the pass, no debounce timer is pending.
C24_TrailingDebounce ==
    /\ "staleDebounce" \notin timers
    /\ (/\ last.op = "observer"
        /\ \A target \in last.batch : ~InsideOwnElements(target))
          => /\ "debounce" \in timers
             /\ state.debounceTimer # last.handle
    /\ last.op = "debounce" => "debounce" \notin timers

\* a batch arrives while the timer of an earlier batch is pending
C24_Witness ==
    /\ last.op = "observer"
    /\ last.batch = {"host"}
    /\ last.pending
    /\ "debounce" \in timers
    /\ state.debounceTimer # last.handle

(***************************************************************************)
(* QuietSpec: the reconciliation loop of Spec with a host that stops: the  *)
(* host and the user act as in Spec until HostStops, and from then on only *)
(* the engine's timers, storage callbacks and observer callback run.       *)
(* `last` holds the last step, whether the host has stopped, and the       *)
(* number of reconciliation passes run since it stopped.                   *)
(***************************************************************************)
MaxOwnPasses == 6

\* an engine step named op; "debounce" is a pass
QuietRecord(op) ==
    [last EXCEPT !.op = op,
                 !.passes = IF /\ last.quiet
                               /\ op \in {"debounce", "staleDebounce"}
                               /\ @ <= MaxOwnPasses
                            THEN @ + 1 ELSE @]

QuietInitialize ==
    /\ ~state.isInitialized
    /\ Commit(init(World))
    /\ last' = QuietRecord("init")

QuietTimer(t) ==
    /\ TimerRuns(t)
    /\ last' = QuietRecord(t)

QuietObserver ==
    /\ ObserverRuns
    /\ last' = QuietRecord("observer")

\* one step of the host or the user, as in Spec
QuietHost ==
    /\ ~last.quiet
    /\ records.queue = {}
    /\ \/ /\ Len(dom.roots) > 0
          /\ Commit(Mutated([World EXCEPT !.dom.roots = Tail(@)], "host"))
       \/ \E i \in 1..Len(dom.children) :
             /\ dom.children[i].unres
             /\ Commit([World EXCEPT !.dom.children[i].unres = FALSE])
       \/ \E batch \in SUBSET {"host", "controls", "notification"} :
             /\ records.observing
             /\ batch # {}
             /\ "controls" \in batch => Len(dom.roots) > 0
             /\ "notification" \in batch => dom.notification
             /\ Commit([World EXCEPT !.records.queue = batch])
       \/ \E p \in LoopPages :
             /\ p # page
             /\ Commit(Mutated([World EXCEPT !.page = p], "host"))
       \/ /\ Len(dom.roots) > 0
          /\ dom.roots[1].shown
          /\ Commit(showUnresolvedConversations(World))
    /\ last' = [last EXCEPT !.op = "host"]

HostStops ==
    /\ ~last.quiet
    /\ last' = [last EXCEPT !.op = "stop", !.quiet = TRUE]
    /\ UNCHANGED <<state, dom, page, storage, timers, records>>

QuietInit ==
    /\ state = [currentSort |-> DATE_NEWEST, sortControlsInjected |-> FALSE,
                isInitialized |-> FALSE, debounceTimer |-> 0, sortToApply |-> NONE]
    /\ \E c \in LoopLists, hasBox \in BOOLEAN :
          dom = [hasContainer |-> TRUE, children |-> c, roots |-> <<>>,
                 notification |-> FALSE, dropdown |-> FALSE,
                 box |-> IF hasBox
                         THEN BoxAt([node |-> "bucket", id |-> BUCKET_ID],
                                    [kind |-> "none", id |-> ""])
                         ELSE NoBox,
                 home |-> [node |-> "bucket", id |-> BUCKET_ID],
                 sib |-> [kind |-> "none", id |-> ""], hasTimeline |-> FALSE,
                 readyState |-> "complete",
                 homeAttached |-> TRUE, sibPlace |-> "home"]
    /\ page \in LoopPages
    /\ storage = [sync |-> "ok", sortPreference |-> NONE, local |-> NONE,
                  moveMergeStatus |-> "unset"]
    /\ timers = {}
    /\ records = [observing |-> FALSE, queue |-> {}, setups |-> 0, onLoad |-> FALSE]
    /\ last = [op |-> "none", quiet |-> FALSE, passes |-> 0]

QuietNext ==
    \/ QuietInitialize
    \/ \E t \in TimerNames : QuietTimer(t)
    \/ QuietObserver
    \/ QuietHost
    \/ HostStops

QuietSpec == QuietInit /\ [][QuietNext]_vars

\* C25: once the host has stopped, the engine comes to rest: no more than
\* MaxOwnPasses reconciliation passes run, so that after the last of them
\* no debounce timer is pending any more, although the engine's own writes
\* outside the control root are observed.
C25_EngineComesToRest == last.passes <= MaxOwnPasses

\* after the host has stopped, a pass writes outside the control root
C25_Witness ==
    /\ last.quiet
    /\ last.op = "debounce"
    /\ "host" \in records.queue

(***************************************************************************)
(* BootSpec: the start of the content script.  init is called when the     *)
(* script is evaluated and may be called again any number of times; while  *)
(* the document is loading it registers itself for DOMContentLoaded, and   *)
(* the event may be dispatched more than once.  `last` holds the last step *)
(* and isInitialized before it.                                            *)
(***************************************************************************)
\* a page of the site that is not a pull request
OtherPage == [FilesPage EXCEPT !.pathTab = "none", !.otherVisible = FALSE, !.pull = FALSE]

BootPages == {ConversationPage, FilesPage, OtherPage}

BootRecord(op) == [op |-> op, initialized |-> state.isInitialized]

\* a call of init()
InitCall ==
    /\ records.queue = {}
    /\ Commit(init(World))
    /\ last' = BootRecord("init")

\* the document stops loading and DOMContentLoaded is dispatched
DocumentLoads ==
    /\ dom.readyState = "loading"
    /\ LET w == [World EXCEPT !.dom.readyState = "complete"]
       IN Commit(IF records.onLoad THEN init(w) ELSE w)
    /\ last' = BootRecord("DOMContentLoaded")

\* DOMContentLoaded is dispatched again
RepeatedReadySignal ==
    /\ dom.readyState # "loading"
    /\ records.queue = {}
    /\ records.onLoad
    /\ Commit(init(World))
    /\ last' = BootRecord("DOMContentLoaded")

BootTimer(t) ==
    /\ TimerRuns(t)
    /\ last' = BootRecord(t)

BootObserver ==
    /\ ObserverRuns
    /\ last' = BootRecord("observer")

\* the host replaces the page content (client-side navigation)
BootNavigates(p) ==
    /\ records.queue = {}
    /\ p # page
    /\ Commit(Mutated([World EXCEPT !.page = p], "host"))
    /\ last' = BootRecord("navigate")

BootInit ==
    /\ state = [currentSort |-> DATE_NEWEST, sortControlsInjected |-> FALSE,
                isInitialized |-> FALSE, debounceTimer |-> 0, sortToApply |-> NONE]
    /\ \E loading \in BOOLEAN :
          dom = [hasContainer |-> TRUE, children |-> <<>>, roots |-> <<>>,
                 notification |-> FALSE, dropdown |-> FALSE,
                 box |-> NoBox, home |-> [node |-> "bucket", id |-> BUCKET_ID],
                 sib |-> [kind |-> "none", id |-> ""], hasTimeline |-> FALSE,
                 readyState |-> IF loading THEN "loading" ELSE "complete",
                 homeAttached |-> TRUE, sibPlace |-> "home"]
    /\ page \in BootPages
    /\ storage = [sync |-> "ok", sortPreference |-> NONE, local |-> NONE,
                  moveMergeStatus |-> "unset"]
    /\ timers = {}
    /\ records = [observing |-> FALSE, queue |-> {}, setups |-> 0, onLoad |-> FALSE]
    /\ last = [op |-> "none", initialized |-> FALSE]

BootNext ==
    \/ InitCall
    \/ DocumentLoads
    \/ RepeatedReadySignal
    \/ \E t \in TimerNames : BootTimer(t)
    \/ BootObserver
    \/ \E p \in BootPages : BootNavigates(p)

BootSpec == BootInit /\ [][BootNext]_vars

\* C26: however often init is called, directly or as the DOMContentLoaded
\* listener, the observer and the listeners are installed at most once, and
\* isInitialized is set from the moment they are installed on.
C26_SetupOnce ==
    /\ records.setups <= 1
    /\ state.isInitialized <=> records.setups = 1
    /\ last.initialized => state.isInitialized

\* init called on an initialised engine that had waited for DOMContentLoaded
C26_Witness ==
    /\ last.op = "init"
    /\ last.initialized
    /\ records.onLoad
    /\ records.setups = 1

(***************************************************************************)
(* LiveSpec: an initialised engine on a living page.  The host appends     *)
(* comments, re-renders the header (removing the control root) and changes *)
(* tab with a re-render; the user follows in-page links, which change      *)
(* location.hash and nothing in the tree.  `last` holds the last step.     *)
(***************************************************************************)
\* the conversation tab opened at a timeline anchor such as
\* #commits-pushed-1a2b3c4 or #discussion-diff-1
AnchoredPage == [ConversationPage EXCEPT !.hashTab = TRUE]

LivePages == {ConversationPage, AnchoredPage, FilesPage}

LiveStep(op, A) ==
    /\ A
    /\ last' = [op |-> op]

\* location.hash changes and the hashchange event is dispatched; a listener
\* is there once init has run
HashNavigates(p) ==
    /\ records.queue = {}
    /\ p # page
    /\ [p EXCEPT !.hashTab = page.hashTab] = page
    /\ LET w == [World EXCEPT !.page = p]
       IN Commit(IF state.isInitialized THEN handleHashChange(w) ELSE w)

\* the host appends a comment to the comment container
HostAddsComment(a) ==
    /\ records.queue = {}
    /\ Len(dom.children) < MaxStartLen
    /\ a.time.kind # "bad"
    /\ Commit(Mutated([World EXCEPT !.dom.children =
                          Append(@, MkElement(Len(@) + 1, a))], "host"))

LiveInit ==
    /\ state = [currentSort |-> DATE_NEWEST, sortControlsInjected |-> FALSE,
                isInitialized |-> FALSE, debounceTimer |-> 0, sortToApply |-> NONE]
    /\ \E c \in {l \in StartLists : Len(l) < MaxStartLen} :
          dom = [hasContainer |-> TRUE, children |-> c, roots |-> <<>>,
                 notification |-> FALSE, dropdown |-> FALSE,
                 box |-> NoBox, home |-> [node |-> "bucket", id |-> BUCKET_ID],
                 sib |-> [kind |-> "none", id |-> ""], hasTimeline |-> FALSE,
                 readyState |-> "complete",
                 homeAttached |-> TRUE, sibPlace |-> "home"]
    /\ page \in LivePages
    /\ \E saved \in {NONE, DATE_OLDEST} :
          storage = [sync |-> "ok", sortPreference |-> saved, local |-> NONE,
                     moveMergeStatus |-> "unset"]
    /\ timers = {}
    /\ records = [observing |-> FALSE, queue |-> {}, setups |-> 0, onLoad |-> FALSE]
    /\ last = [op |-> "none"]

LiveNext ==
    \/ LiveStep("init", ~state.isInitialized /\ Commit(init(World)))
    \/ \E t \in TimerNames : LiveStep(t, TimerRuns(t))
    \/ LiveStep("observer", ObserverRuns)
    \/ \E p \in LivePages : LiveStep("hashchange", HashNavigates(p))
    \/ \E p \in LivePages :
          LiveStep("navigate", /\ records.queue = {}
                               /\ p # page
                               /\ [p EXCEPT !.hashTab = page.hashTab] # page
                               /\ Commit(Mutated([World EXCEPT !.page = p], "host")))
    \/ \E a \in ElementAttrs : LiveStep("comment", HostAddsComment(a))
    \/ LiveStep("removeRoot", /\ records.queue = {}
                              /\ Len(dom.roots) > 0
                              /\ Commit(Mutated([World EXCEPT !.dom.roots = Tail(@)], "host")))

LiveSpec == LiveInit /\ [][LiveNext]_vars

\* C28: once the engine is initialised and has nothing left to run (no timer
\* or storage callback pending, no record waiting for the observer), a page
\* that satisfies shouldShowControls has the control root, displayed;
\* whether the page came to satisfy it through a re-render or through a
\* change of location.hash alone.
C28_ControlsAppear ==
    (/\ state.isInitialized
     /\ timers = {}
     /\ records.queue = {}
     /\ shouldShowControls(page))
        => /\ Len(dom.roots) > 0
           /\ dom.roots[1].shown

\* C29: at the end of a reconciliation pass the children of the comment
\* container are in an order that currentSort produces.
C29_PassSorts ==
    last.op = "debounce"
        => dom.children \in SortOutcomes(dom.children, state.currentSort)

\* C30: whenever the control root exists (between handlers), the mode
\* buttons marked active are exactly those whose mode is currentSort: one
\* button for the two date modes, none for a mode without a button.
C30_IndicatorMatchesSort ==
    Len(dom.roots) > 0
        => dom.roots[1].active = {b \in SortButtons : b = state.currentSort}

(***************************************************************************)
(* PrefSpec: the "move merge status" switch of the popup, used while the   *)
(* content script starts and reconciles.  The popup stores the preference  *)
(* and then sends updateMergeStatusPreference.  The box starts under       *)
(* #discussion_bucket as its last child, where a restore returns it        *)
(* exactly.  `last` holds the last step and the value of the switch after  *)
(* its last use ("unset" before the first).                                *)
(***************************************************************************)
\* popup: chrome.storage.sync.set({moveMergeStatus}), then the message
handleMoveMergeToggle(w, shouldMove) ==
    LET w1 == [w EXCEPT !.storage.moveMergeStatus = IF shouldMove THEN "true" ELSE "false"]
    IN onMessage(w1, [action |-> "updateMergeStatusPreference", sortOption |-> BOGUS,
                      shouldMove |-> shouldMove, null |-> FALSE], <<>>).w

PrefStep(op, A) ==
    /\ A
    /\ last' = [last EXCEPT !.op = op]

MoveMergeToggle(shouldMove) ==
    /\ state.isInitialized
    /\ records.queue = {}
    /\ Commit(handleMoveMergeToggle(World, shouldMove))
    /\ last' = [op |-> "toggle", switch |-> IF shouldMove THEN "true" ELSE "false"]

PrefInit ==
    /\ state = [currentSort |-> DATE_NEWEST, sortControlsInjected |-> FALSE,
                isInitialized |-> FALSE, debounceTimer |-> 0, sortToApply |-> NONE]
    /\ dom = [hasContainer |-> TRUE, children |-> <<>>, roots |-> <<>>,
              notification |-> FALSE, dropdown |-> FALSE,
              box |-> BoxAt([node |-> "bucket", id |-> BUCKET_ID],
                            [kind |-> "none", id |-> ""]),
              home |-> [node |-> "bucket", id |-> BUCKET_ID],
              sib |-> [kind |-> "none", id |-> ""], hasTimeline |-> FALSE,
              readyState |-> "complete",
              homeAttached |-> TRUE, sibPlace |-> "home"]
    /\ page \in {ConversationPage, FilesPage}
    /\ \E stored \in {"unset", "true", "false"} :
          storage = [sync |-> "ok", sortPreference |-> NONE, local |-> NONE,
                     moveMergeStatus |-> stored]
    /\ timers = {}
    /\ records = [observing |-> FALSE, queue |-> {}, setups |-> 0, onLoad |-> FALSE]
    /\ last = [op |-> "none", switch |-> "unset"]

PrefNext ==
    \/ PrefStep("init", ~state.isInitialized /\ Commit(init(World)))
    \/ \E t \in TimerNames : PrefStep(t, TimerRuns(t))
    \/ PrefStep("observer", ObserverRuns)
    \/ \E shouldMove \in BOOLEAN : MoveMergeToggle(shouldMove)
    \/ PrefStep("removeRoot", /\ records.queue = {}
                              /\ Len(dom.roots) > 0
                              /\ Commit(Mutated([World EXCEPT !.dom.roots = Tail(@)], "host")))
    \/ \E p \in {ConversationPage, FilesPage} :
          PrefStep("navigate", /\ records.queue = {}
                               /\ p # page
                               /\ Commit(Mutated([World EXCEPT !.page = p], "host")))

PrefSpec == PrefInit /\ [][PrefNext]_vars

\* C31: once the switch has been turned off and every timer, storage
\* callback and observer record has been handled, the box is not marked as
\* moved and is where the page delivered it.
C31_SwitchOffWins ==
    (/\ last.switch = "false"
     /\ timers = {}
     /\ records.queue = {})
        => /\ ~dom.box.moved
           /\ BoxPosition(dom) = [parent |-> "bucket", next |-> "null"]

\* C32: a reconciliation pass starts only when no earlier pass is in flight:
\* the debounce timer does not run handleMutations while the storage read
\* that an earlier pass started, and the placement after it, are pending.
C32_NoInterleavedPass ==
    [][last'.op = "debounce" => "movePass" \notin timers]_vars

(***************************************************************************)
(* DriftSpec: move and restore of the merge status box on a conversation   *)
(* tab whose host changes the tree between the two: it removes the box's   *)
(* home parent, or removes the box's original next sibling or moves it     *)
(* under another parent.  `last` holds the last operation, the tree before *)
(* it and whether the operation raised.  The home parent has an id, so     *)
(* that a restore with no host change in between finds it.                 *)
(***************************************************************************)
\* the host removes the home parent together with its children
HostRemovesParent ==
    /\ dom.homeAttached
    /\ dom.home.node # "body"
    /\ dom.box.moved
    /\ dom' = [dom EXCEPT !.homeAttached = FALSE,
                          !.sibPlace = IF @ = "home" THEN "gone" ELSE @,
                          !.hasTimeline = IF dom.home.node = "timeline" THEN FALSE ELSE @]
    /\ page' = IF dom.home.node = "bucket" THEN [page EXCEPT !.bucket = "absent"] ELSE page
    /\ UNCHANGED <<state, storage, timers, records>>
    /\ last' = [op |-> "removeParent", before |-> dom, threw |-> FALSE]

\* the host removes the sibling, or re-attaches it under another parent
HostDisplacesSibling(place) ==
    /\ dom.sib.kind # "none"
    /\ dom.sibPlace = "home"
    /\ dom.box.moved
    /\ dom' = [dom EXCEPT !.sibPlace = place]
    /\ UNCHANGED <<state, page, storage, timers, records>>
    /\ last' = [op |-> "displaceSibling", before |-> dom, threw |-> FALSE]

DriftMessage(shouldMove) ==
    /\ IF shouldMove
       THEN ~dom.box.moved /\ Commit(moveMergeStatusToTop(World))
       ELSE Commit(restoreMergeStatusPosition(World))
    /\ last' = [op |-> IF shouldMove THEN "move" ELSE "restore", before |-> dom,
                threw |-> ~shouldMove /\ RestoreThrows(World)]

DriftInit ==
    /\ state = [currentSort |-> DATE_NEWEST, sortControlsInjected |-> TRUE,
                isInitialized |-> TRUE, debounceTimer |-> 0, sortToApply |-> NONE]
    /\ \E h \in {x \in Homes : x.id # ""}, sb \in Siblings :
          dom = [hasContainer |-> TRUE, children |-> <<>>,
                 roots |-> <<NewRoot([children |-> <<>>])>>,
                 notification |-> FALSE, dropdown |-> FALSE,
                 box |-> BoxAt(h, sb),
                 home |-> h, sib |-> sb, hasTimeline |-> h.node = "timeline",
                 readyState |-> "complete",
                 homeAttached |-> TRUE, sibPlace |-> "home"]
    /\ page = ConversationPage
    /\ storage = [sync |-> "ok", sortPreference |-> NONE, local |-> NONE,
                  moveMergeStatus |-> "unset"]
    /\ timers = {}
    /\ records = [observing |-> FALSE, queue |-> {}, setups |-> 0, onLoad |-> FALSE]
    /\ last = [op |-> "none", before |-> dom, threw |-> FALSE]

DriftNext ==
    \/ \E shouldMove \in BOOLEAN : DriftMessage(shouldMove)
    \/ HostRemovesParent
    \/ \E place \in {"moved", "gone"} : HostDisplacesSibling(place)

DriftSpec == DriftInit /\ [][DriftNext]_vars

\* the nodes of the document a box can be attached to
AttachedNodes ==
    {"body", "top"}
        \cup (IF page.bucket # "absent" THEN {"bucket"} ELSE {})
        \cup (IF dom.hasTimeline THEN {"timeline"} ELSE {})
        \cup (IF dom.homeAttached THEN {dom.home.node} ELSE {})

\* C33: a restore of a moved box completes without raising whatever the host
\* did to the recorded parent and sibling since the move; it leaves the box
\* attached to the document, under the first existing fallback container
\* when the recorded parent is gone, and without the moved marker and the
\* recorded ids.
C33_RestoreTolerant ==
    (last.op = "restore" /\ last.before.box.moved)
        => /\ ~last.threw
           /\ ~dom.box.moved
           /\ dom.box.origParentId = "" /\ dom.box.origNextId = ""
           /\ dom.box.parent \in AttachedNodes
           /\ ~dom.homeAttached => dom.box.parent = FallbackParent(World)

\* the child list with every unparseable datetime read as epoch zero
EpochForMalformed(s) ==
    [i \in 1..Len(s) |->
        IF s[i].time.kind = "bad" THEN [s[i] EXCEPT !.time = [kind |-> "none", v |-> 0]]
        ELSE s[i]]

\* C34: a sort orders a list with malformed datetime attributes exactly as
\* the same list with those attributes read as epoch zero: the malformed
\* elements stand where epoch zero belongs, and the other elements are in
\* the order of the mode's comparator.
C34_MalformedAsEpoch ==
    (last.op \in {"sort", "toggleSort"} /\ last.ran /\ last.mode \in SortModes)
        => EpochForMalformed(dom.children)
               = StableSort(EpochForMalformed(last.before), last.mode)

\* the position of the element with identity id in s
PositionIn(s, id) == CHOOSE i \in 1..Len(s) : s[i].id = id

\* C35: after a sort, any two elements with a missing or well-formed
\* timestamp stand in the order of the mode's comparator, a missing
\* timestamp counting as epoch zero, and in the order they had before the
\* sort when the comparator ranks them equal.
C35_EpochForMissingAndStable ==
    (last.op \in {"sort", "toggleSort"} /\ last.ran /\ last.mode \in SortModes)
        => \A i \in 1..Len(dom.children), j \in 1..Len(dom.children) :
              (/\ i < j
               /\ dom.children[i].time.kind # "bad"
               /\ dom.children[j].time.kind # "bad")
                  => LET c == compareChildren(dom.children[i], dom.children[j], last.mode)
                     IN /\ c <= 0
                        /\ c = 0 => PositionIn(last.before, dom.children[i].id)
                                       < PositionIn(last.before, dom.children[j].id)

(***************************************************************************)
(* The unresolved badge (Spec).                                            *)
(***************************************************************************)
\* the two states of the badge button
BadgeHasUnresolved(b) ==
    b.cls = "has-unresolved" /\ b.n >= 1 /\ b.icon = "issueOpened" /\ b.chevron

BadgeAllResolved(b) ==
    b.cls = "all-resolved" /\ b.n = 0 /\ b.icon = "checkCircle" /\ ~b.chevron

\* C36: every badge in the tree is either in the has-unresolved state
\* ("N Unresolved", N >= 1, open-issue icon, arrow) or in the all-resolved
\* state ("All Resolved", check icon, no arrow); and when a reconciliation
\* pass that ran updateUnresolvedButton ends, the badge shows the number of
\* unresolved threads in the tree and no dropdown is open when it is zero.
C36_BadgeInOneState ==
    /\ \A r \in 1..Len(dom.roots) :
          BadgeHasUnresolved(dom.roots[r].badge) \/ BadgeAllResolved(dom.roots[r].badge)
    /\ (last.op \in {"debounce", "staleDebounce"} /\ last.roots > 0)
          => /\ Len(dom.roots) > 0
             /\ dom.roots[1].badge.n = UnresolvedCount(dom)
             /\ UnresolvedCount(dom) = 0 => ~dom.dropdown

\* a pass has brought the badge to "All Resolved" on a page with threads
C36_Witness ==
    /\ last.op = "debounce"
    /\ last.roots > 0
    /\ Len(dom.children) > 0
    /\ UnresolvedCount(dom) = 0
    /\ BadgeAllResolved(dom.roots[1].badge)

(***************************************************************************)
(* ListenerSpec: the listeners of the unresolved-list dropdown.  The       *)
(* engine cannot read the listener lists of document and window; `last`    *)
(* keeps them beside the last operation:                                   *)
(*   click  - handleClickOutside is in the click listeners of document     *)
(*            (addEventListener ignores a callback that is already there)  *)
(*   scroll - the number of handleScroll closures in the scroll listeners  *)
(*            of window (each call of showUnresolvedConversations makes a  *)
(*            new closure)                                                 *)
(*   adds   - the pending setTimeout(0) callbacks that add                 *)
(*            handleClickOutside                                           *)
(***************************************************************************)
MaxListeners == 2

ListenRecord(op, click, scroll, adds) ==
    [op |-> op, click |-> click, scroll |-> scroll, adds |-> adds]

\* the click listener of document
handleClickOutside(w) ==
    IF Len(w.dom.roots) > 0 /\ w.dom.dropdown THEN closeUnresolvedList(w) ELSE w

ListenInitialize ==
    /\ ~state.isInitialized
    /\ Commit(init(World))
    /\ last' = [last EXCEPT !.op = "init"]

\* a reconciliation pass that finds no unresolved thread ends in
\* closeUnresolvedList, which removes the click listener
ListenTimer(t) ==
    /\ TimerRuns(t)
    /\ last' = [last EXCEPT
                  !.op = t,
                  !.click = IF /\ t \in {"debounce", "staleDebounce"}
                               /\ Len(dom.roots) > 0
                               /\ UnresolvedCount(dom) = 0
                            THEN FALSE ELSE @]

ListenObserver ==
    /\ ObserverRuns
    /\ last' = [last EXCEPT !.op = "observer"]

ListenHostResolves(i) ==
    /\ records.queue = {}
    /\ i \in 1..Len(dom.children)
    /\ dom.children[i].unres
    /\ Commit([World EXCEPT !.dom.children[i].unres = FALSE])
    /\ last' = [last EXCEPT !.op = "resolve"]

ListenHostMutates ==
    /\ records.queue = {}
    /\ records.observing
    /\ Commit([World EXCEPT !.records.queue = {"host"}])
    /\ last' = [last EXCEPT !.op = "mutate"]

\* click on the badge button: the dropdown is toggled off, or there is
\* nothing to list, or it is opened and both listeners are asked for
ClickBadge ==
    /\ records.queue = {}
    /\ Len(dom.roots) > 0
    /\ dom.roots[1].shown
    /\ last.scroll < MaxListeners
    /\ last.adds < MaxListeners
    /\ Commit(showUnresolvedConversations(World))
    /\ last' = IF dom.dropdown
               THEN ListenRecord("toggleOff", FALSE, last.scroll, last.adds)
               ELSE IF UnresolvedCount(dom) = 0
               THEN [last EXCEPT !.op = "nothingToList"]
               ELSE ListenRecord("open", last.click, last.scroll + 1, last.adds + 1)

\* the callback of setTimeout(..., 0) adds the click listener
ClickListenerAdded ==
    /\ records.queue = {}
    /\ last.adds > 0
    /\ UNCHANGED <<state, dom, page, storage, timers, records>>
    /\ last' = ListenRecord("addClick", TRUE, last.scroll, last.adds - 1)

\* click on an item of the dropdown
ClickItem ==
    /\ records.queue = {}
    /\ dom.dropdown
    /\ Commit(closeUnresolvedList(World))
    /\ last' = ListenRecord("item", FALSE, last.scroll, last.adds)

\* a click outside the button wrapper and the dropdown, with the click
\* listener in place
ClickOutside ==
    /\ records.queue = {}
    /\ last.click
    /\ Commit(handleClickOutside(World))
    /\ last' = ListenRecord("outside",
                            IF Len(dom.roots) > 0 /\ dom.dropdown THEN FALSE ELSE last.click,
                            last.scroll, last.adds)

\* a scroll event: every handleScroll closure runs closeUnresolvedList and,
\* added with {once: true}, is removed
WindowScrolls ==
    /\ records.queue = {}
    /\ last.scroll > 0
    /\ Commit(closeUnresolvedList(World))
    /\ last' = ListenRecord("scroll", FALSE, 0, last.adds)

ListenInit ==
    /\ state = [currentSort |-> DATE_NEWEST, sortControlsInjected |-> FALSE,
                isInitialized |-> FALSE, debounceTimer |-> 0, sortToApply |-> NONE]
    /\ \E c \in LoopLists :
          dom = [hasContainer |-> TRUE, children |-> c, roots |-> <<>>,
                 notification |-> FALSE, dropdown |-> FALSE, box |-> NoBox,
                 home |-> [node |-> "bucket", id |-> BUCKET_ID],
                 sib |-> [kind |-> "none", id |-> ""], hasTimeline |-> FALSE,
                 readyState |-> "complete",
                 homeAttached |-> TRUE, sibPlace |-> "home"]
    /\ page = ConversationPage
    /\ storage = [sync |-> "ok", sortPreference |-> NONE, local |-> NONE,
                  moveMergeStatus |-> "unset"]
    /\ timers = {}
    /\ records = [observing |-> FALSE, queue |-> {}, setups |-> 0, onLoad |-> FALSE]
    /\ last = ListenRecord("none", FALSE, 0, 0)

ListenNext ==
    \/ ListenInitialize
    \/ \E t \in TimerNames : ListenTimer(t)
    \/ ListenObserver
    \/ \E i \in 1..MaxThreads : ListenHostResolves(i)
    \/ ListenHostMutates
    \/ ClickBadge
    \/ ClickListenerAdded
    \/ ClickItem
    \/ ClickOutside
    \/ WindowScrolls

ListenerSpec == ListenInit /\ [][ListenNext]_vars

\* C37: at most one click-outside listener and at most one scroll listener
\* of the dropdown are registered, and none is while the dropdown is closed.
C37_NoListenerAccumulates ==
    /\ last.scroll <= 1
    /\ ~dom.dropdown => ~last.click /\ last.scroll = 0

(***************************************************************************)
(* PathSpec: the pathname check of isConversationTab() on the paths of     *)
(* pull requests.  A string is the sequence of its characters, a path the  *)
(* sequence of its segments; `last` keeps the segments of the current      *)
(* location beside the last operation.  Everything else on the page says   *)
(* conversation.                                                           *)
(***************************************************************************)
FilesName == <<"f", "i", "l", "e", "s">>

CommitsName == <<"c", "o", "m", "m", "i", "t", "s">>

ChangesName == <<"c", "h", "a", "n", "g", "e", "s">>

ChecksName == <<"c", "h", "e", "c", "k", "s">>

PullName == <<"p", "u", "l", "l">>

\* the tab names the pathname check looks for
TabSegments == {FilesName, CommitsName, ChangesName, ChecksName}

\* owners: a, files-o, myfiles, checks
OwnerNames == {<<"a">>, FilesName \o <<"-", "o">>, <<"m", "y">> \o FilesName, ChecksName}

\* repositories: r, commits2, checks-ci
RepoNames == {<<"r">>, CommitsName \o <<"2">>, ChecksName \o <<"-", "c", "i">>}

\* /owner/repo/pull/5 and its tabs
PullPaths ==
    {<<o, r, PullName, <<"5">>>> \o tail :
        o \in OwnerNames, r \in RepoNames,
        tail \in {<<>>} \cup {<<t>> : t \in TabSegments}}

\* location.pathname of a path: every segment after a "/"
RECURSIVE Pathname(_)
Pathname(segments) ==
    IF segments = <<>> THEN <<>>
    ELSE <<"/">> \o Head(segments) \o Pathname(Tail(segments))

\* String.prototype.includes
Includes(s, pattern) ==
    \E k \in 0..(Len(s) - Len(pattern)) :
        \A i \in 1..Len(pattern) : s[k + i] = pattern[i]

\* strategy 1 of isConversationTab: the first of the four patterns the
\* pathname includes
PathTab(pathname) ==
    IF Includes(pathname, <<"/">> \o FilesName) THEN "files"
    ELSE IF Includes(pathname, <<"/">> \o CommitsName) THEN "commits"
    ELSE IF Includes(pathname, <<"/">> \o ChangesName) THEN "changes"
    ELSE IF Includes(pathname, <<"/">> \o ChecksName) THEN "checks"
    ELSE "none"

\* the page at a path, with the conversation rendered
PageAt(segments) ==
    [ConversationPage EXCEPT
        !.pathTab = PathTab(Pathname(segments)),
        !.pull = Includes(Pathname(segments), <<"/">> \o PullName \o <<"/">>)]

\* the host moves to another path without a reload
PathNavigates(segments) ==
    /\ records.queue = {}
    /\ segments # last.segments
    /\ Commit(Mutated([World EXCEPT !.page = PageAt(segments)], "host"))
    /\ last' = [op |-> "navigate", segments |-> segments]

PathObserver ==
    /\ ObserverRuns
    /\ last' = [last EXCEPT !.op = "observer"]

PathTimer(t) ==
    /\ TimerRuns(t)
    /\ last' = [last EXCEPT !.op = t]

PathHashChange ==
    /\ records.queue = {}
    /\ Commit(handleHashChange(World))
    /\ last' = [last EXCEPT !.op = "hashchange"]

PathInit ==
    /\ state = [currentSort |-> DATE_NEWEST, sortControlsInjected |-> TRUE,
                isInitialized |-> TRUE, debounceTimer |-> 0, sortToApply |-> NONE]
    /\ dom = [hasContainer |-> TRUE, children |-> <<>>,
              roots |-> <<NewRoot([children |-> <<>>])>>,
              notification |-> FALSE, dropdown |-> FALSE,
              box |-> NoBox, home |-> [node |-> "bucket", id |-> BUCKET_ID],
              sib |-> [kind |-> "none", id |-> ""], hasTimeline |-> FALSE,
              readyState |-> "complete",
              homeAttached |-> TRUE, sibPlace |-> "home"]
    /\ \E segments \in PullPaths :
          /\ page = PageAt(segments)
          /\ last = [op |-> "none", segments |-> segments]
    /\ storage = [sync |-> "ok", sortPreference |-> NONE, local |-> NONE,
                  moveMergeStatus |-> "unset"]
    /\ timers = {}
    /\ records = [observing |-> TRUE, queue |-> {}, setups |-> 1, onLoad |-> FALSE]

PathNext ==
    \/ \E segments \in PullPaths : PathNavigates(segments)
    \/ PathObserver
    \/ \E t \in TimerNames : PathTimer(t)
    \/ PathHashChange

PathSpec == PathInit /\ [][PathNext]_vars

\* C38: on a path none of whose segments is files, commits, changes or
\* checks, the pathname check of isConversationTab finds no tab name, and
\* the engine does not hide the controls of the rendered conversation.
C38_WholeSegmentsOnly ==
    (\A i \in 1..Len(last.segments) : last.segments[i] \notin TabSegments)
        => /\ page.pathTab = "none"
           /\ last.op \in {"hashchange", "debounce"} => dom.roots[1].shown

(***************************************************************************)
(* AnchorSpec: the steps of GateSpec on every page within Pages, with and  *)
(* without a .js-discussion and a .discussion-timeline element, so that    *)
(* each subset of the anchors of injectSortControls occurs.                *)
(***************************************************************************)
AnchorInit ==
    /\ \E started \in BOOLEAN, container \in BOOLEAN, timeline \in BOOLEAN :
          /\ state = [currentSort |-> DATE_NEWEST, sortControlsInjected |-> started,
                      isInitialized |-> started,
                      debounceTimer |-> IF started THEN 1 ELSE 0, sortToApply |-> NONE]
          /\ dom = [hasContainer |-> container, children |-> <<>>, roots |-> <<>>,
                    notification |-> FALSE, dropdown |-> FALSE,
                    box |-> NoBox, home |-> [node |-> "bucket", id |-> BUCKET_ID],
                    sib |-> [kind |-> "none", id |-> ""], hasTimeline |-> timeline,
                    readyState |-> "complete",
                    homeAttached |-> TRUE, sibPlace |-> "home"]
          /\ timers = IF started THEN {"debounce"} ELSE {}
          /\ records = [observing |-> started, queue |-> {},
                        setups |-> IF started THEN 1 ELSE 0, onLoad |-> FALSE]
    /\ page \in Pages
    /\ storage = [sync |-> "ok", sortPreference |-> NONE, local |-> NONE,
                  moveMergeStatus |-> "unset"]
    /\ last = [op |-> "none", before |-> <<>>, injected |-> state.sortControlsInjected]

AnchorNext == GateNext

AnchorSpec == AnchorInit /\ [][AnchorNext]_vars

\* C39: isConversationTab accepts only pages on which #discussion_bucket
\* exists; so init on a pull request page and a reconciliation pass that
\* finds no root, on a page that passes shouldShowControls, insert the root
\* in that step, and no retry timer is ever pending.
C39_AnchorWithinGate ==
    /\ isConversationTab(page) => page.bucket # "absent"
    /\ "retry" \notin timers
    /\ (/\ \/ last.op = "init" /\ page.pull
           \/ last.op \in {"debounce", "staleDebounce"} /\ Len(last.before) = 0
        /\ shouldShowControls(page))
          => Len(dom.roots) = 1

\* init has injected the root on a page whose only anchor is the bucket
C39_Witness ==
    /\ last.op = "init"
    /\ Len(dom.roots) = 1
    /\ ~dom.hasContainer /\ ~dom.hasTimeline /\ ~page.main

====
